---- MODULE Spec2Model ----
(***************************************************************************)
(* A model of the web content extraction pipeline of                       *)
(* src/web-fetcher/src/index.ts: the WebFetcher class (fetchContent, the   *)
(* four extractors, calculateScore, selectBestResult, isDocumentUrl and    *)
(* processGitHubUrl).                                                      *)
(*                                                                         *)
(* fetchContent is an async function: it is cut at its await points, one   *)
(* action per continuation.  Each extractor is an async function too and   *)
(* is cut the same way.  What the network, the browser and the OCR engine  *)
(* answer is chosen by the environment from bounded sets.                  *)
(***************************************************************************)
EXTENDS Integers, Sequences, FiniteSets, TLC

(***************************************************************************)
(* Strings.  A text is known by the features calculateScore reads: its     *)
(* length, the number of blank-line separated paragraphs whose trimmed     *)
(* length exceeds 50, whether one of the error patterns matches, whether   *)
(* it holds a heading marker and whether it holds a link.  A payload is a  *)
(* text in one of its forms: the page's markup ("html"), the markdown      *)
(* turndown makes of it, plain text, a JSON dump, a screenshot ("png") or  *)
(* a byte count ("size").                                                  *)
(***************************************************************************)
NoText == [len |-> 0, paras |-> 0, errors |-> FALSE, heading |-> FALSE, link |-> FALSE]

\* JavaScript's undefined, as read from a missing metadata key.
Undefined == [form |-> "undefined", text |-> NoText]

\* The texts a page, a document or a screenshot may hold.
EmptyText == NoText
ErrorText == [len |-> 5000, paras |-> 0, errors |-> TRUE, heading |-> FALSE, link |-> TRUE]
ShortText == [len |-> 3200, paras |-> 0, errors |-> FALSE, heading |-> TRUE, link |-> TRUE]
PlainText == [len |-> 5000, paras |-> 0, errors |-> FALSE, heading |-> TRUE, link |-> TRUE]
MediumText == [len |-> 5000, paras |-> 2, errors |-> FALSE, heading |-> TRUE, link |-> TRUE]
RichText == [len |-> 5000, paras |-> 5, errors |-> FALSE, heading |-> TRUE, link |-> TRUE]
LongText == [len |-> 6050, paras |-> 12, errors |-> FALSE, heading |-> TRUE, link |-> FALSE]

Texts == {EmptyText, ErrorText, ShortText, PlainText, MediumText, RichText, LongText}

Payload(form, text) == [form |-> form, text |-> text]

\* JavaScript truthiness of a string-or-undefined value, as `a || b` reads it:
\* undefined and the empty string are falsy.
Falsy(v) == v = Undefined \/ (v.form \in {"markdown", "text"} /\ v.text.len = 0)

\* a || b
OrElse(a, b) == IF Falsy(a) THEN b ELSE a

Min(a, b) == IF a < b THEN a ELSE b
Max(a, b) == IF a > b THEN a ELSE b

(***************************************************************************)
(* calculateScore.  Scores are JavaScript numbers and contentLength / 100  *)
(* is fractional; the model keeps every score in hundredths of a point     *)
(* (ScoreScale), so that contentLength / 100 is exact.                     *)
(***************************************************************************)
ScoreScale == 100

Points(n) == n * ScoreScale

\* The length component without its cap at 50.
LengthScoreUncapped(text) ==
    IF text.len < 100 THEN 0 - Points(20)
    ELSE (text.len * ScoreScale) \div 100

LengthScore(text) ==
    IF text.len < 100 THEN 0 - Points(20)
    ELSE Min((text.len * ScoreScale) \div 100, Points(50))

\* The paragraph component without its cap at 20.
ParagraphScoreUncapped(text) == Points(text.paras * 2)

ParagraphScore(text) == Min(Points(text.paras * 2), Points(20))

ErrorScore(text) == IF text.errors THEN 0 - Points(30) ELSE 0

\* The method adjustments with the document bonus at 5.
MethodScoreDocumentFive(method) ==
    (IF method = "browser" THEN Points(5) ELSE 0)
    + (IF method = "http" THEN Points(3) ELSE 0)
    + (IF method = "ocr" THEN 0 - Points(5) ELSE 0)
    + (IF method = "document" THEN Points(5) ELSE 0)

MethodScore(method) ==
    (IF method = "browser" THEN Points(5) ELSE 0)
    + (IF method = "http" THEN Points(3) ELSE 0)
    + (IF method = "ocr" THEN 0 - Points(5) ELSE 0)
    + (IF method = "document" THEN Points(10) ELSE 0)

\* calculateScore without its heading bonus.
StructureScoreNone(text) == 0

StructureScore(text) == IF text.heading THEN Points(10) ELSE 0

LinkScore(text) == IF text.link THEN Points(5) ELSE 0

\* calculateScore without its floor.
calculateScoreUnfloored(content, method) ==
    LengthScore(content.text) + ParagraphScore(content.text)
    + ErrorScore(content.text) + MethodScore(method)
    + StructureScore(content.text) + LinkScore(content.text)

calculateScore(content, method) ==
    Max(0, LengthScore(content.text) + ParagraphScore(content.text)
           + ErrorScore(content.text) + MethodScore(method)
           + StructureScore(content.text) + LinkScore(content.text))

(***************************************************************************)
(* ExtractionResult, and null.                                             *)
(***************************************************************************)
Null == [method |-> "null"]

Result(content, method, score, metadata) ==
    [content |-> content, method |-> method, score |-> score, metadata |-> metadata]

\* metadata?.key
MetaGet(result, key) ==
    IF key \in DOMAIN result.metadata THEN result.metadata[key] ELSE Undefined

(***************************************************************************)
(* selectBestResult: results.sort((a, b) => b.score - a.score), a stable   *)
(* sort, then results[0].  SortByScore is the insertion sort that gives    *)
(* the same (stable, descending) order.                                    *)
(***************************************************************************)
\* InsertByScore with the comparison of an unstable sort: a later result of
\* equal score goes first.
RECURSIVE InsertByScoreUnstable(_, _)
InsertByScoreUnstable(r, sorted) ==
    IF sorted = << >> THEN << r >>
    ELSE IF Head(sorted).score <= r.score THEN << r >> \o sorted
    ELSE << Head(sorted) >> \o InsertByScoreUnstable(r, Tail(sorted))

RECURSIVE InsertByScore(_, _)
InsertByScore(r, sorted) ==
    IF sorted = << >> THEN << r >>
    ELSE IF Head(sorted).score < r.score THEN << r >> \o sorted
    ELSE << Head(sorted) >> \o InsertByScore(r, Tail(sorted))

RECURSIVE SortByScore(_)
SortByScore(rs) ==
    IF rs = << >> THEN << >>
    ELSE InsertByScore(rs[Len(rs)], SortByScore(SubSeq(rs, 1, Len(rs) - 1)))

\* selectBestResult without its sort.
selectFirstUnsorted(rs) == rs[1]

selectBestResult(rs) == SortByScore(rs)[1]

(***************************************************************************)
(* URLs.  A URL is the sequence of its "/"-separated segments after the    *)
(* scheme (the host first) and the sequence of "?ref=" suffixes glued to   *)
(* its end.                                                                *)
(***************************************************************************)
Url(segs, refs) == [segs |-> segs, refs |-> refs]

\* The document extensions a segment's lower-cased text includes.
SegIncludes(seg) ==
    CASE seg = "paper.pdf" -> {".pdf"}
      [] seg = "notes.doc" -> {".doc"}
      [] seg = "report.docx" -> {".docx", ".doc"}
      [] seg = "slides.pptx" -> {".pptx", ".ppt"}
      [] seg = "www.docs.example.com" -> {".doc"}
      [] OTHER -> {}

\* url.toLowerCase().includes(ext)
UrlIncludes(url, ext) ==
    \/ \E i \in 1..Len(url.segs) : ext \in SegIncludes(url.segs[i])
    \/ \E i \in 1..Len(url.refs) : ext \in SegIncludes(url.refs[i])

documentExtensions == {".pdf", ".doc", ".docx", ".pptx", ".ppt"}

isDocumentUrl(url) == \E ext \in documentExtensions : UrlIncludes(url, ext)

\* url.includes('api.github.com')
IsApiUrl(url) == \E i \in 1..Len(url.segs) : url.segs[i] = "api.github.com"

\* The segments whose text ends with "github.com".
EndsWithGithubCom(seg) == seg \in {"github.com", "api.github.com"}

\* The positions at which /github\.com\/([^\/]+)\/([^\/]+)\/<word>\/([^\/]+)\/(.*)/
\* matches: segment i ends with github.com, then owner, repo, the word, the
\* branch, and a "/" after the branch.
PatternMatches(url, word) ==
    {i \in 1..Len(url.segs) :
        /\ EndsWithGithubCom(url.segs[i])
        /\ Len(url.segs) >= i + 5
        /\ url.segs[i + 1] # "" /\ url.segs[i + 2] # "" /\ url.segs[i + 4] # ""
        /\ url.segs[i + 3] = word}

\* The leftmost match.
FirstMatch(url, word) ==
    CHOOSE i \in PatternMatches(url, word) : \A j \in PatternMatches(url, word) : i <= j

processGitHubUrl(url) ==
    IF PatternMatches(url, "blob") # {}
    THEN LET i == FirstMatch(url, "blob")
         IN  Url(<< "raw.githubusercontent.com", url.segs[i + 1], url.segs[i + 2],
                    url.segs[i + 4] >> \o SubSeq(url.segs, i + 5, Len(url.segs)),
                 url.refs)
    ELSE IF PatternMatches(url, "tree") # {}
    THEN LET i == FirstMatch(url, "tree")
         IN  Url(<< "api.github.com", "repos", url.segs[i + 1], url.segs[i + 2],
                    "contents" >> \o SubSeq(url.segs, i + 5, Len(url.segs)),
                 url.refs \o << url.segs[i + 4] >>)
    ELSE url

PageUrl == Url(<< "example.com", "page" >>, << >>)
PdfUrl == Url(<< "example.com", "paper.pdf" >>, << >>)
DocUrl == Url(<< "example.com", "notes.doc" >>, << >>)
DocxUrl == Url(<< "example.com", "report.docx" >>, << >>)
PptxUrl == Url(<< "example.com", "slides.pptx" >>, << >>)
BlobUrl == Url(<< "github.com", "o", "r", "blob", "main", "README.md" >>, << >>)
TreeUrl == Url(<< "github.com", "o", "r", "tree", "main", "src" >>, << >>)
\* A page of a host whose name holds ".doc".
DocsHostUrl == Url(<< "www.docs.example.com", "page" >>, << >>)

Urls == {PageUrl, PdfUrl, DocUrl, DocxUrl, PptxUrl, BlobUrl, TreeUrl, DocsHostUrl}

(***************************************************************************)
(* What the HTTP extractor makes of a response (extractWithHttp, after     *)
(* its one await).  A response is the listing API's array, the listing     *)
(* API's single-file payload with content, or anything else, which is      *)
(* parsed as a page.                                                       *)
(***************************************************************************)
Response(kind, text) == [kind |-> kind, text |-> text]

\* The responses axios.get may resolve with for a URL.
Responses(u) ==
    {Response("page", t) : t \in Texts}
    \cup (IF IsApiUrl(u)
          THEN {Response("array", t) : t \in Texts}
               \cup {Response("file", t) : t \in {x \in Texts : x.len > 0}}
          ELSE {})

\* extractWithHttp giving the API payloads the score of calculateScore.
extractWithHttpScored(u, response) ==
    IF IsApiUrl(u) /\ response.kind = "array"
    THEN Result(Payload("markdown", response.text), "http-api",
                calculateScore(Payload("markdown", response.text), "http-api"),
                [rawHtml |-> Payload("json", response.text)])
    ELSE IF IsApiUrl(u) /\ response.kind = "file"
    THEN Result(Payload("text", response.text), "http-api",
                calculateScore(Payload("text", response.text), "http-api"),
                [rawHtml |-> Payload("text", response.text)])
    ELSE LET markdown == Payload("markdown", response.text)
         IN  Result(markdown, "http", calculateScore(markdown, "http"),
                    [rawHtml |-> Payload("html", response.text)])

extractWithHttp(u, response) ==
    IF IsApiUrl(u) /\ response.kind = "array"
    THEN Result(Payload("markdown", response.text), "http-api", Points(80),
                [rawHtml |-> Payload("json", response.text)])
    ELSE IF IsApiUrl(u) /\ response.kind = "file"
    THEN Result(Payload("text", response.text), "http-api", Points(90),
                [rawHtml |-> Payload("text", response.text)])
    ELSE LET markdown == Payload("markdown", response.text)
         IN  Result(markdown, "http", calculateScore(markdown, "http"),
                    [rawHtml |-> Payload("html", response.text)])

\* The results the other extractors build from the text they obtained.
BrowserResult(t) ==
    LET markdown == Payload("markdown", t)
    IN  Result(markdown, "browser", calculateScore(markdown, "browser"),
               [rawHtml |-> Payload("html", t)])

OcrResult(t) ==
    LET ocrText == Payload("text", t)
    IN  Result(ocrText, "ocr", calculateScore(ocrText, "ocr"),
               [screenshot |-> Payload("png", t)])

DocumentResult(t) ==
    LET content == Payload("text", t)
    IN  Result(content, "document", calculateScore(content, "document"),
               [fileSize |-> Payload("size", t)])

\* The branch extractDocument takes for a URL.
DocumentKind(u) ==
    IF UrlIncludes(u, ".pdf") THEN "pdf"
    ELSE IF UrlIncludes(u, ".docx") THEN "docx"
    ELSE IF UrlIncludes(u, ".doc") THEN "doc"
    ELSE "other"

\* The fast-path test with >= for >.
FastPathAcceptsFrom50(httpResult) == httpResult # Null /\ httpResult.score >= Points(50)

\* httpResult && httpResult.score > 50
FastPathAccepts(httpResult) == httpResult # Null /\ httpResult.score > Points(50)

\* raw ? (result.metadata?.rawHtml || result.content) : result.content
Output(result, rawFlag) ==
    IF rawFlag THEN OrElse(MetaGet(result, "rawHtml"), result.content)
    ELSE result.content

\* The collection loop stopping at the first null entry.
RECURSIVE PushUntilNull(_, _)
PushUntilNull(rs, extractionResults) ==
    IF extractionResults = << >> \/ Head(extractionResults) = Null THEN rs
    ELSE PushUntilNull(Append(rs, Head(extractionResults)), Tail(extractionResults))

\* extractionResults.forEach(result => { if (result) results.push(result) })
RECURSIVE PushNonNull(_, _)
PushNonNull(rs, extractionResults) ==
    IF extractionResults = << >> THEN rs
    ELSE PushNonNull(IF Head(extractionResults) # Null
                     THEN Append(rs, Head(extractionResults)) ELSE rs,
                     Tail(extractionResults))

TimeoutError == "Extraction timeout"
AllFailedError == "All extraction methods failed"
NoError == "none"
\* The error of an extractor, whatever it is.
ExtractorError == "extractor error"

(***************************************************************************)
(* The state.  The locals of fetchContent are functions of the call; one    *)
(* WebFetcher instance serves every call.                                  *)
(***************************************************************************)
AllCalls == {"call1", "call2"}

\* The call that runs when a call runs alone.
SoloCalls == {"call1"}

Extractors == {"browser", "document", "ocr"}
BrowserUsers == {"browser", "ocr"}

VARIABLES
    pc,                 \* where fetchContent stands: idle, http, race, done
    url, raw,           \* its arguments
    processedUrl,       \* its local processedUrl
    urlSeen,            \* the URL each extractor, and isDocumentUrl, was called with
    httpResult,         \* its local httpResult (Null while there is none)
    httpThrew,          \* whether extractWithHttp threw
    task,               \* per extractor: the stage of its async function, and
                        \* the completion it holds while its finally block runs
    driver,             \* per browser-driving extractor: its local driver
    lostResult,         \* per such extractor: whether the error of quit()
                        \* replaced a result the try block had returned
    timer,              \* the setTimeout of the race: unset, armed, fired
    extractionResults,  \* what Promise.all resolved with
    results,            \* the local results array
    bestResult,         \* the local bestResult
    returned, thrown,   \* what the call resolved with, what it rejected with
    settleCount,        \* how many times the call's promise was settled
    instanceDriver,     \* the instance field `driver` of the WebFetcher
    scoreContent,       \* the content calculateScore is called on, on its own
    scores,             \* per method tag: what calculateScore returned, if called
    urlArgument,        \* the argument of processGitHubUrl, called on its own
    urlReturned,        \* what that call and the calls on its result returned
    toolRequest,        \* per call: the arguments of the fetch tool call
    toolResponse,       \* per call: what the tool handler answered
    candidates,         \* an argument of selectBestResult, called on its own
    selected            \* what that call returned

fetchVars == << pc, url, raw, processedUrl, urlSeen, httpResult, httpThrew, task, driver,
                lostResult, timer,
                extractionResults, results, bestResult, returned, thrown, settleCount >>

selectVars == << candidates, selected >>

\* The variables the fetchContent call and its extractors leave alone.
instanceVars == << instanceDriver >>

scoreVars == << scoreContent, scores >>

urlVars == << urlArgument, urlReturned >>

toolVars == << toolRequest, toolResponse >>

\* The search servers' rate limiter (src/duckduckgo, src/searxng).
VARIABLES
    server,             \* which search server this process is
    now,                \* Date.now(), counted from the load of the module
    requestCount,       \* the module variable requestCount
    rateError,          \* what the last checkRateLimit threw, if it threw
    admitted,           \* the times at which checkRateLimit returned normally
    admittedTotal,      \* how many calls of checkRateLimit returned normally
    rateCalls           \* how many calls of checkRateLimit are modelled so far

rateVars == << server, now, requestCount, rateError, admitted, admittedTotal, rateCalls >>

\* The container lifecycle manager (src/unnamed/part_000) and the docker
\* daemon it drives.
VARIABLES
    clock,              \* date +%s, counted from the first run of the script
    dockerState,        \* per container: absent, exited, running or paused
    netIO,              \* per container: which NetIO line docker stats prints
    stateFile,          \* per container: the file $STATE_DIR/$container
    monitorAt,          \* how many containers the running monitor pass has done
    lastCommand,        \* the last docker pause or unpause the script issued
    exitStatus,         \* the exit status of the last run of the script
    lastRun,            \* the command of that run: monitor or unpause
    trafficAt,          \* per container: when its NetIO last changed
    requestAt           \* per container: when a request last unpaused it

monitorVars == << clock, dockerState, netIO, stateFile, monitorAt, lastCommand,
                  exitStatus, lastRun, trafficAt, requestAt >>

\* The searxng_web_search tool of the SearXNG server (src/searxng).
VARIABLES
    searchFetch,        \* what the fetch of the last search did
    searchResponse      \* what the tool handler returned for the last search

searchVars == << searchFetch, searchResponse >>

serviceVars == << rateVars, monitorVars, searchVars >>

otherVars == << selectVars, instanceVars, scoreVars, urlVars, toolVars, serviceVars >>

vars == << fetchVars, otherVars >>

Failure == [method |-> "error"]

Task(stage, pending) == [stage |-> stage, pending |-> pending]

NotLaunched == Task("none", Null)

\* The callees of fetchContent that take the URL.
UrlReaders == {"http", "browser", "document", "ocr", "isDocumentUrl"}

NoUrl == Url(<< >>, << >>)

\* What the parallel phase adds to the URLs seen: isDocumentUrl and each
\* extractor started are called with u.
SeenInRace(seen, tasks, u) ==
    [r \in UrlReaders |->
        IF r = "isDocumentUrl" THEN u
        ELSE IF r \in Extractors /\ tasks[r].stage # "none" THEN u
        ELSE seen[r]]

FetchInit ==
    /\ pc = [c \in AllCalls |-> "idle"]
    /\ url = [c \in AllCalls |-> PageUrl]
    /\ raw = [c \in AllCalls |-> FALSE]
    /\ processedUrl = [c \in AllCalls |-> PageUrl]
    /\ urlSeen = [c \in AllCalls |-> [r \in UrlReaders |-> NoUrl]]
    /\ httpResult = [c \in AllCalls |-> Null]
    /\ httpThrew = [c \in AllCalls |-> FALSE]
    /\ task = [c \in AllCalls |-> [e \in Extractors |-> NotLaunched]]
    /\ driver = [c \in AllCalls |-> [e \in BrowserUsers |-> "null"]]
    /\ lostResult = [c \in AllCalls |-> [e \in BrowserUsers |-> FALSE]]
    /\ timer = [c \in AllCalls |-> "unset"]
    /\ extractionResults = [c \in AllCalls |-> << >>]
    /\ results = [c \in AllCalls |-> << >>]
    /\ bestResult = [c \in AllCalls |-> Null]
    /\ returned = [c \in AllCalls |-> Undefined]
    /\ thrown = [c \in AllCalls |-> NoError]
    /\ settleCount = [c \in AllCalls |-> 0]

SelectIdle ==
    /\ candidates = << >>
    /\ selected = Null

\* Line 141: private driver: WebDriver | null = null.
InstanceInit == instanceDriver = "null"

\* The method tags calculateScore is called with (lines 255, 324, 372, 415),
\* and two it is not.
ScoreMethods == {"browser", "http", "document", "ocr", "http-api", "other"}

NotScored == [m \in ScoreMethods |-> << >>]

ScoreIdle ==
    /\ scoreContent = Payload("text", NoText)
    /\ scores = NotScored

UrlIdle ==
    /\ urlArgument = PageUrl
    /\ urlReturned = << >>

NoRequest == [kind |-> "none"]

NoResponse == [isError |-> FALSE, message |-> "none", text |-> Undefined]

ToolIdle ==
    /\ toolRequest = [c \in AllCalls |-> NoRequest]
    /\ toolResponse = [c \in AllCalls |-> NoResponse]

(***************************************************************************)
(* Times of the search servers: Date.now() in milliseconds, kept as days   *)
(* and milliseconds of the day, the 30 days of monthInMs being beyond the  *)
(* integers of the model checker.                                          *)
(***************************************************************************)
DayMs == 24 * 60 * 60 * 1000

Time(d, ms) == [d |-> d, ms |-> ms]

\* t + u
Plus(t, u) == Time(t.d + u.d + ((t.ms + u.ms) \div DayMs), (t.ms + u.ms) % DayMs)

\* t - u, for u not after t
Elapsed(t, u) ==
    IF t.ms >= u.ms THEN Time(t.d - u.d, t.ms - u.ms)
                    ELSE Time(t.d - u.d - 1, t.ms + DayMs - u.ms)

\* t > u
Exceeds(t, u) == t.d > u.d \/ (t.d = u.d /\ t.ms > u.ms)

Servers == {"duckduckgo", "searxng"}

\* CONFIG.rateLimit of each server, the environment of searxng being unset.
perSecond(s) == IF s = "duckduckgo" THEN 1 ELSE 5

perMonth(s) == IF s = "duckduckgo" THEN 15000 ELSE 200000

SecondInMs == Time(0, 1000)

monthInMs == Time(30, 0)

\* The requestCount each module is loaded with, at time t.
FreshCount(s, t) ==
    IF s = "duckduckgo"
    THEN [second |-> 0, month |-> 0, lastReset |-> t]
    ELSE [second |-> 0, month |-> 0, lastSecondReset |-> t, lastMonthReset |-> t]

NoRateError == "none"

RateLimitExceeded == "Rate limit exceeded"

PerSecondExceeded == "Rate limit exceeded: per second"

PerMonthExceeded == "Rate limit exceeded: per month"

RateIdle ==
    /\ server = "duckduckgo"
    /\ now = Time(0, 0)
    /\ requestCount = FreshCount("duckduckgo", Time(0, 0))
    /\ rateError = NoRateError
    /\ admitted = << >>
    /\ admittedTotal = 0
    /\ rateCalls = 0

(***************************************************************************)
(* The container lifecycle manager, src/unnamed/part_000.                  *)
(***************************************************************************)
CONTAINERS ==
    << "mcp-sequentialthinking", "mcp-web-fetcher", "mcp-duckduckgo", "mcp-time",
       "mcp-youtube-transcript" >>

INACTIVITY_THRESHOLD == 1800

\* The containers of the list that are modelled: its first MaxContainers.
MaxContainers == 2

Monitored == SubSeq(CONTAINERS, 1, MaxContainers)

ContainerNames == {Monitored[i] : i \in 1..Len(Monitored)}

\* A NetIO column of docker stats, "<received> / <sent>", each amount a
\* sequence of characters such as 1.23MB.
NetIO(rx, tx) == rx \o << " ", "/", " " >> \o tx

\* The NetIO lines a container shows as its traffic grows.
NetIOSamples ==
    << NetIO(<< "0", "B" >>, << "0", "B" >>),
       NetIO(<< "1", ".", "2", "k", "B" >>, << "0", "B" >>),
       NetIO(<< "1", ".", "2", "3", "M", "B" >>, << "4", ".", "5", "6", "M", "B" >>),
       NetIO(<< "1", ".", "2", "3", "M", "B" >>, << "4", ".", "5", "7", "M", "B" >>) >>

DigitChars == {"0", "1", "2", "3", "4", "5", "6", "7", "8", "9"}

IsNumeric(ch) == ch \in DigitChars \cup {"."}

\* sed 's/[^0-9.]//g': every character but digits and dots is deleted.
sed(line) == SelectSeq(line, IsNumeric)

\* The first field of awk -F'/': the characters before the first slash.
RECURSIVE FirstField(_)
FirstField(line) ==
    IF line = << >> \/ Head(line) = "/" THEN << >>
    ELSE << Head(line) >> \o FirstField(Tail(line))

\* The number awk reads at the head of a string: digits, then at most one dot
\* and digits.
RECURSIVE NumericPrefix(_, _)
NumericPrefix(chars, seenDot) ==
    IF chars = << >> THEN << >>
    ELSE IF Head(chars) \in DigitChars
    THEN << Head(chars) >> \o NumericPrefix(Tail(chars), seenDot)
    ELSE IF Head(chars) = "." /\ ~seenDot
    THEN << "." >> \o NumericPrefix(Tail(chars), TRUE)
    ELSE << >>

RECURSIVE DropLeadingZeros(_)
DropLeadingZeros(digits) ==
    IF digits # << >> /\ Head(digits) = "0" THEN DropLeadingZeros(Tail(digits))
    ELSE digits

RECURSIVE DropTrailingZeros(_)
DropTrailingZeros(digits) ==
    IF digits # << >> /\ digits[Len(digits)] = "0"
    THEN DropTrailingZeros(SubSeq(digits, 1, Len(digits) - 1))
    ELSE digits

\* awk's print of a number of at most six significant digits: no leading
\* zeros, no trailing zeros after the dot, no dot before nothing.
PrintNumber(number) ==
    LET dot == CHOOSE i \in 1..(Len(number) + 1) :
                   /\ i <= Len(number) => number[i] = "."
                   /\ \A j \in 1..(i - 1) : number[j] # "."
        int == DropLeadingZeros(SubSeq(number, 1, dot - 1))
        frac == DropTrailingZeros(SubSeq(number, dot + 1, Len(number)))
    IN  (IF int = << >> THEN << "0" >> ELSE int)
        \o (IF frac = << >> THEN << >> ELSE << "." >> \o frac)

\* awk -F'/' '{print $1 + $2}' on what sed left: there is no slash any more,
\* the second field is empty and counts as 0.
awk(line) == PrintNumber(NumericPrefix(FirstField(line), FALSE))

\* get_network_bytes of a container showing the given NetIO line.
get_network_bytes(line) == awk(sed(line))

is_paused(state) == state = "paused"

\* docker reports State.Running for a paused container too.
is_running(state) == state \in {"running", "paused"}

NoCommand == [cmd |-> "none", container |-> "none", on |-> "none"]

Command(cmd, c, state) == [cmd |-> cmd, container |-> c, on |-> state]

\* pause_container and unpause_container on a container in the given state:
\* the state they leave, their return status, whether docker was called.
pause_container(state) ==
    IF is_running(state) /\ ~is_paused(state)
    THEN [state |-> "paused", status |-> 0, issued |-> TRUE]
    ELSE [state |-> state, status |-> 1, issued |-> FALSE]

unpause_container(state) ==
    IF is_paused(state)
    THEN [state |-> "running", status |-> 0, issued |-> TRUE]
    ELSE [state |-> state, status |-> 1, issued |-> FALSE]

NoFile == [bytes |-> << >>, time |-> -1]

Never == -1

MonitorIdle ==
    /\ clock = 0
    /\ dockerState = [c \in ContainerNames |-> "running"]
    /\ netIO = [c \in ContainerNames |-> 1]
    /\ stateFile = [c \in ContainerNames |-> NoFile]
    /\ monitorAt = 0
    /\ lastCommand = NoCommand
    /\ exitStatus = 0
    /\ lastRun = "none"
    /\ trafficAt = [c \in ContainerNames |-> Never]
    /\ requestAt = [c \in ContainerNames |-> Never]

NotFetched == [kind |-> "none", status |-> 0, message |-> << >>]

NoSearch == [isError |-> FALSE, text |-> << >>]

SearchIdle ==
    /\ searchFetch = NotFetched
    /\ searchResponse = NoSearch

ServiceIdle == RateIdle /\ MonitorIdle /\ SearchIdle

Init ==
    FetchInit /\ SelectIdle /\ InstanceInit /\ ScoreIdle /\ UrlIdle /\ ToolIdle /\ ServiceIdle

\* The tasks of the parallel phase as lines 175-198 start them: the browser
\* extractor always, the document extractor for a document URL (a null entry
\* otherwise), the OCR extractor if the results array is empty.
LaunchedTasks(u, rs) ==
    [e \in Extractors |->
        IF e = "browser" THEN Task("build", Null)
        ELSE IF e = "document"
        THEN (IF isDocumentUrl(u) THEN Task("download", Null) ELSE NotLaunched)
        ELSE (IF Len(rs) = 0 THEN Task("build", Null) ELSE NotLaunched)]

(***************************************************************************)
(* fetchContent, lines 156-166: the call starts, normalizes the URL and    *)
(* awaits extractWithHttp.                                                 *)
(***************************************************************************)
\* fetchContent starting the parallel phase without awaiting extractWithHttp.
fetchContentNoAwait(c, u, rawFlag) ==
    /\ pc[c] = "idle"
    /\ pc' = [pc EXCEPT ![c] = "http"]
    /\ url' = [url EXCEPT ![c] = u]
    /\ raw' = [raw EXCEPT ![c] = rawFlag]
    /\ processedUrl' = [processedUrl EXCEPT ![c] = processGitHubUrl(u)]
    /\ task' = [task EXCEPT ![c] = LaunchedTasks(processGitHubUrl(u), << >>)]
    /\ urlSeen' = [urlSeen EXCEPT ![c] =
           SeenInRace([@ EXCEPT !["http"] = processGitHubUrl(u)],
                      LaunchedTasks(processGitHubUrl(u), << >>), processGitHubUrl(u))]
    /\ UNCHANGED << httpResult, httpThrew, driver, lostResult, timer, extractionResults,
                    results, bestResult, returned, thrown, settleCount, otherVars >>

\* fetchContent arming the timer of the race as it starts, so that the budget
\* would cover the HTTP attempt too.
fetchContentStartArmed(c, u, rawFlag) ==
    /\ pc[c] = "idle"
    /\ pc' = [pc EXCEPT ![c] = "http"]
    /\ url' = [url EXCEPT ![c] = u]
    /\ raw' = [raw EXCEPT ![c] = rawFlag]
    /\ processedUrl' = [processedUrl EXCEPT ![c] = processGitHubUrl(u)]
    /\ urlSeen' = [urlSeen EXCEPT ![c]["http"] = processGitHubUrl(u)]
    /\ timer' = [timer EXCEPT ![c] = "armed"]
    /\ UNCHANGED << httpResult, httpThrew, task, driver, lostResult, extractionResults,
                    results, bestResult, returned, thrown, settleCount >>

\* What the start of fetchContent does to the call's locals.
fetchContentStart(c, u, rawFlag) ==
    /\ pc[c] = "idle"
    /\ pc' = [pc EXCEPT ![c] = "http"]
    /\ url' = [url EXCEPT ![c] = u]
    /\ raw' = [raw EXCEPT ![c] = rawFlag]
    /\ processedUrl' = [processedUrl EXCEPT ![c] = processGitHubUrl(u)]
    /\ urlSeen' = [urlSeen EXCEPT ![c]["http"] = processGitHubUrl(u)]
    /\ UNCHANGED << httpResult, httpThrew, task, driver, lostResult, timer, extractionResults,
                    results, bestResult, returned, thrown, settleCount >>

fetchContent(c, u, rawFlag) ==
    /\ fetchContentStart(c, u, rawFlag)
    /\ UNCHANGED otherVars

\* The parallel phase begun on a results array that already holds the HTTP
\* result: the OCR guard then sees a collection that is not empty.
StartRaceKeepsHttp(c) ==
    LET kept == PushNonNull(<< >>, << httpResult'[c] >>)
    IN  /\ results' = [results EXCEPT ![c] = kept]
        /\ task' = [task EXCEPT ![c] = LaunchedTasks(processedUrl[c], kept)]
        /\ urlSeen' = [urlSeen EXCEPT ![c] =
               SeenInRace(@, LaunchedTasks(processedUrl[c], kept), processedUrl[c])]
        /\ timer' = [timer EXCEPT ![c] = "armed"]
        /\ pc' = [pc EXCEPT ![c] = "race"]
        /\ UNCHANGED << driver, lostResult, extractionResults, bestResult, returned, thrown,
                        settleCount >>

\* The parallel phase begun on the URL fetchContent was called with, where
\* lines 178-193 pass processedUrl.
StartRaceOnOriginalUrl(c) ==
    /\ results' = [results EXCEPT ![c] = << >>]
    /\ task' = [task EXCEPT ![c] = LaunchedTasks(url[c], << >>)]
    /\ urlSeen' = [urlSeen EXCEPT ![c] =
           SeenInRace(@, LaunchedTasks(url[c], << >>), url[c])]
    /\ timer' = [timer EXCEPT ![c] = "armed"]
    /\ pc' = [pc EXCEPT ![c] = "race"]
    /\ UNCHANGED << driver, lostResult, extractionResults, bestResult, returned, thrown, settleCount >>

\* Lines 175-205, up to the await of the race: results is a new empty array,
\* the extractors are started and the timer is armed.
StartRace(c) ==
    /\ results' = [results EXCEPT ![c] = << >>]
    /\ task' = [task EXCEPT ![c] = LaunchedTasks(processedUrl[c], << >>)]
    /\ urlSeen' = [urlSeen EXCEPT ![c] =
           SeenInRace(@, LaunchedTasks(processedUrl[c], << >>), processedUrl[c])]
    /\ timer' = [timer EXCEPT ![c] = "armed"]
    /\ pc' = [pc EXCEPT ![c] = "race"]
    /\ UNCHANGED << driver, lostResult, extractionResults, bestResult, returned, thrown, settleCount >>

\* Lines 166-173 and on: extractWithHttp resolved with a result.
HttpReturns(c, response) ==
    /\ pc[c] = "http"
    /\ response \in Responses(processedUrl[c])
    /\ LET r == extractWithHttp(processedUrl[c], response)
       IN  /\ httpResult' = [httpResult EXCEPT ![c] = r]
           /\ IF FastPathAccepts(r)
              THEN /\ returned' = [returned EXCEPT ![c] = Output(r, raw[c])]
                   /\ settleCount' = [settleCount EXCEPT ![c] = @ + 1]
                   /\ pc' = [pc EXCEPT ![c] = "done"]
                   /\ UNCHANGED << urlSeen, task, driver, lostResult, timer, extractionResults,
                                   results, bestResult, thrown >>
              ELSE StartRace(c)
    /\ UNCHANGED << url, raw, processedUrl, httpThrew, otherVars >>

\* Lines 171-173 and on: extractWithHttp threw; the error is logged.
HttpThrows(c) ==
    /\ pc[c] = "http"
    /\ httpThrew' = [httpThrew EXCEPT ![c] = TRUE]
    /\ StartRace(c)
    /\ UNCHANGED << url, raw, processedUrl, httpResult, otherVars >>

(***************************************************************************)
(* The race.  Promise.all resolves when its last entry settles, and the    *)
(* continuation of fetchContent (lines 207-222) runs in the microtasks of  *)
(* that same step, before any timer: it is part of the step that settles   *)
(* the last extractor.                                                     *)
(***************************************************************************)
AllSettled(tasks) == \A e \in Extractors : tasks[e].stage \in {"none", "settled"}

\* The array Promise.all resolves with: browser, document (or null), OCR.
Gathered(tasks) ==
    << tasks["browser"].pending, tasks["document"].pending >>
    \o (IF tasks["ocr"].stage = "none" THEN << >> ELSE << tasks["ocr"].pending >>)

\* Lines 207-222 with `results` held in one array that every call of the
\* instance pushes to.
SelectShared(c, gathered) ==
    LET rs == PushNonNull(results["call1"], gathered)
    IN  /\ extractionResults' = [extractionResults EXCEPT ![c] = gathered]
        /\ pc' = [pc EXCEPT ![c] = "done"]
        /\ settleCount' = [settleCount EXCEPT ![c] = @ + 1]
        /\ IF Len(rs) = 0
           THEN /\ thrown' = [thrown EXCEPT ![c] = AllFailedError]
                /\ results' = [d \in AllCalls |-> rs]
                /\ UNCHANGED << bestResult, returned >>
           ELSE /\ results' = [d \in AllCalls |-> SortByScore(rs)]
                /\ bestResult' = [bestResult EXCEPT ![c] = selectBestResult(rs)]
                /\ returned' = [returned EXCEPT ![c] = Output(selectBestResult(rs), raw[c])]
                /\ UNCHANGED thrown

\* Lines 207-222 with the low-scoring HTTP result kept among the candidates.
SelectWithHttp(c, gathered) ==
    LET rs == PushNonNull(results[c], << httpResult[c] >> \o gathered)
    IN  /\ extractionResults' = [extractionResults EXCEPT ![c] = gathered]
        /\ pc' = [pc EXCEPT ![c] = "done"]
        /\ settleCount' = [settleCount EXCEPT ![c] = @ + 1]
        /\ IF Len(rs) = 0
           THEN /\ thrown' = [thrown EXCEPT ![c] = AllFailedError]
                /\ results' = [results EXCEPT ![c] = rs]
                /\ UNCHANGED << bestResult, returned >>
           ELSE /\ results' = [results EXCEPT ![c] = SortByScore(rs)]
                /\ bestResult' = [bestResult EXCEPT ![c] = selectBestResult(rs)]
                /\ returned' = [returned EXCEPT ![c] = Output(selectBestResult(rs), raw[c])]
                /\ UNCHANGED thrown

\* Lines 207-222.
Select(c, gathered) ==
    LET rs == PushNonNull(results[c], gathered)
    IN  /\ extractionResults' = [extractionResults EXCEPT ![c] = gathered]
        /\ pc' = [pc EXCEPT ![c] = "done"]
        /\ settleCount' = [settleCount EXCEPT ![c] = @ + 1]
        /\ IF Len(rs) = 0
           THEN /\ thrown' = [thrown EXCEPT ![c] = AllFailedError]
                /\ results' = [results EXCEPT ![c] = rs]
                /\ UNCHANGED << bestResult, returned >>
           ELSE /\ results' = [results EXCEPT ![c] = SortByScore(rs)]
                /\ bestResult' = [bestResult EXCEPT ![c] = selectBestResult(rs)]
                /\ returned' = [returned EXCEPT ![c] = Output(selectBestResult(rs), raw[c])]
                /\ UNCHANGED thrown

\* Promise.all rejects as soon as one of its entries rejects, and the race
\* and fetchContent with it.
Reject(c, error) ==
    /\ thrown' = [thrown EXCEPT ![c] = error]
    /\ settleCount' = [settleCount EXCEPT ![c] = @ + 1]
    /\ pc' = [pc EXCEPT ![c] = "done"]
    /\ UNCHANGED << extractionResults, results, bestResult, returned >>

\* An extractor started without its .catch.
catchNothing(completion) == completion

\* Lines 179-182, 184-187, 193-196: extractor(...).catch(err => null).
catchNull(completion) == IF completion = Failure THEN Null ELSE completion

\* An entry of extractionPromises settles: with `value` when it resolves,
\* with Failure when it rejects.  newDriver is the extractor's driver variable
\* after the step.
SettleEntry(c, e, value, newDriver) ==
    LET tasks == [task[c] EXCEPT ![e] = Task("settled", value)]
    IN  /\ task' = [task EXCEPT ![c] = tasks]
        /\ driver' = [driver EXCEPT ![c] = newDriver]
        /\ IF pc[c] = "race" /\ value = Failure
           THEN Reject(c, ExtractorError)
           ELSE IF pc[c] = "race" /\ AllSettled(tasks)
           THEN Select(c, Gathered(tasks))
           ELSE UNCHANGED << pc, extractionResults, results, bestResult, returned,
                             thrown, settleCount >>
        /\ UNCHANGED << url, raw, processedUrl, urlSeen, httpResult, httpThrew, timer, otherVars >>

\* The same, by a step that is not the quit() of a finally block.
Settle(c, e, value, newDriver) ==
    SettleEntry(c, e, value, newDriver) /\ UNCHANGED lostResult

\* An extractor moves to its next await.
Advance(c, e, stage, pending, newDriver) ==
    /\ task' = [task EXCEPT ![c][e] = Task(stage, pending)]
    /\ driver' = [driver EXCEPT ![c] = newDriver]
    /\ UNCHANGED << pc, url, raw, processedUrl, urlSeen, httpResult, httpThrew, timer,
                    lostResult, extractionResults, results, bestResult, returned, thrown,
                    settleCount, otherVars >>

\* The timer resolving the race with an empty array where line 203 rejects.
TimeoutResolvesEmpty(c) ==
    /\ timer[c] = "armed"
    /\ pc[c] = "race"
    /\ timer' = [timer EXCEPT ![c] = "fired"]
    /\ Select(c, << >>)
    /\ UNCHANGED << url, raw, processedUrl, urlSeen, httpResult, httpThrew, task, driver, lostResult,
                    otherVars >>

\* The timer of line 203 fires while the race is pending: the race rejects and
\* fetchContent throws.  The extractors are left running.
Timeout(c) ==
    /\ timer[c] = "armed"
    /\ pc[c] = "race"
    /\ timer' = [timer EXCEPT ![c] = "fired"]
    /\ thrown' = [thrown EXCEPT ![c] = TimeoutError]
    /\ settleCount' = [settleCount EXCEPT ![c] = @ + 1]
    /\ pc' = [pc EXCEPT ![c] = "done"]
    /\ UNCHANGED << url, raw, processedUrl, urlSeen, httpResult, httpThrew, task, driver, lostResult,
                    extractionResults, results, bestResult, returned, otherVars >>

\* A late timer whose reject reached the caller: the call that had returned
\* would fail with the timeout error after all.
LateTimerRejects(c) ==
    /\ timer[c] = "armed"
    /\ pc[c] = "done"
    /\ timer' = [timer EXCEPT ![c] = "fired"]
    /\ thrown' = [thrown EXCEPT ![c] = TimeoutError]
    /\ settleCount' = [settleCount EXCEPT ![c] = @ + 1]
    /\ UNCHANGED << pc, url, raw, processedUrl, urlSeen, httpResult, httpThrew, task,
                    driver, lostResult, extractionResults, results, bestResult, returned, otherVars >>

\* The timer is never cleared: it fires after the race has resolved, and its
\* reject is ignored.
LateTimer(c) ==
    /\ timer[c] = "armed"
    /\ pc[c] = "done"
    /\ timer' = [timer EXCEPT ![c] = "fired"]
    /\ UNCHANGED << pc, url, raw, processedUrl, urlSeen, httpResult, httpThrew, task, driver, lostResult,
                    extractionResults, results, bestResult, returned, thrown,
                    settleCount, otherVars >>

(***************************************************************************)
(* extractWithBrowser, lines 225-271, one action per await.  A step that   *)
(* throws inside the try block goes to the finally block holding the       *)
(* error; the return statement goes there holding the result.              *)
(***************************************************************************)
WithDriver(c, e, state) == [driver[c] EXCEPT ![e] = state]

\* Lines 239-242: await new Builder()...build().  When it throws, driver is
\* still null and the finally block has nothing to quit.
BrowserBuild(c) ==
    /\ task[c]["browser"].stage = "build"
    /\ \/ Advance(c, "browser", "get", Null, WithDriver(c, "browser", "running"))
       \/ Settle(c, "browser", catchNull(Failure), driver[c])

\* extractWithBrowser quitting the browser at the end of the try block, not in
\* a finally block: a throwing driver.get leaves the function at once.
BrowserGetNoFinally(c) ==
    /\ task[c]["browser"].stage = "get"
    /\ \/ Advance(c, "browser", "wait", Null, driver[c])
       \/ Settle(c, "browser", catchNull(Failure), driver[c])

\* Lines 244-245: await setTimeouts, await driver.get(url).
BrowserGet(c) ==
    /\ task[c]["browser"].stage = "get"
    /\ \/ Advance(c, "browser", "wait", Null, driver[c])
       \/ Advance(c, "browser", "quit", Failure, driver[c])

\* extractWithBrowser without its finally block: a page wait that throws
\* goes to the caller with the browser left as it is.
BrowserWaitNoFinally(c) ==
    /\ task[c]["browser"].stage = "wait"
    /\ \/ Advance(c, "browser", "source", Null, driver[c])
       \/ Settle(c, "browser", catchNull(Failure), driver[c])

\* Lines 247-248: await driver.wait(body), await driver.sleep(2000).
BrowserWait(c) ==
    /\ task[c]["browser"].stage = "wait"
    /\ \/ Advance(c, "browser", "source", Null, driver[c])
       \/ Advance(c, "browser", "quit", Failure, driver[c])

\* Lines 250-264: await driver.getPageSource(), then the conversion to
\* markdown, the score and the return statement.
BrowserSource(c) ==
    /\ task[c]["browser"].stage = "source"
    /\ \/ \E t \in Texts : Advance(c, "browser", "quit", BrowserResult(t), driver[c])
       \/ Advance(c, "browser", "quit", Failure, driver[c])

\* A finally block that swallowed the error of quit(): the function would
\* complete with what its try block completed with.
CompletionOfTry(pending, quitThrew) == pending

\* What the async function completes with once its finally block is through.
Completion(pending, quitThrew) == IF quitThrew THEN Failure ELSE pending

\* The finally block of extractor e ends, quit() having thrown or not.
Quit(c, e, quitThrew) ==
    /\ SettleEntry(c, e, catchNull(Completion(task[c][e].pending, quitThrew)),
                   WithDriver(c, e, "quit"))
    /\ lostResult' = [lostResult EXCEPT
                          ![c][e] = quitThrew /\ task[c][e].pending # Failure]

\* Lines 266-270: await driver.quit().  The browser is told to quit whether
\* the promise of quit() resolves or rejects; when it rejects, the error
\* replaces the completion the function held.
BrowserQuit(c) ==
    /\ task[c]["browser"].stage = "quit"
    /\ \E quitThrew \in BOOLEAN : Quit(c, "browser", quitThrew)

(***************************************************************************)
(* extractWithOCR, lines 334-387.                                          *)
(***************************************************************************)
\* Lines 346-349.
OcrBuild(c) ==
    /\ task[c]["ocr"].stage = "build"
    /\ \/ Advance(c, "ocr", "get", Null, WithDriver(c, "ocr", "running"))
       \/ Settle(c, "ocr", catchNull(Failure), driver[c])

\* Lines 351-352.
OcrGet(c) ==
    /\ task[c]["ocr"].stage = "get"
    /\ \/ Advance(c, "ocr", "wait", Null, driver[c])
       \/ Advance(c, "ocr", "quit", Failure, driver[c])

\* extractWithOCR without its finally block: a throwing driver.wait leaves the
\* function at once.
OcrWaitNoFinally(c) ==
    /\ task[c]["ocr"].stage = "wait"
    /\ \/ Advance(c, "ocr", "screenshot", Null, driver[c])
       \/ Settle(c, "ocr", catchNull(Failure), driver[c])

\* Lines 354-355.
OcrWait(c) ==
    /\ task[c]["ocr"].stage = "wait"
    /\ \/ Advance(c, "ocr", "screenshot", Null, driver[c])
       \/ Advance(c, "ocr", "quit", Failure, driver[c])

\* Line 357: await driver.takeScreenshot().
OcrScreenshot(c) ==
    /\ task[c]["ocr"].stage = "screenshot"
    /\ \/ Advance(c, "ocr", "recognize", Null, driver[c])
       \/ Advance(c, "ocr", "quit", Failure, driver[c])

\* Lines 358-380: await sharp(...).toBuffer(), await tesseract.recognize(...),
\* then the score and the return statement.
OcrRecognize(c) ==
    /\ task[c]["ocr"].stage = "recognize"
    /\ \/ \E t \in Texts : Advance(c, "ocr", "quit", OcrResult(t), driver[c])
       \/ Advance(c, "ocr", "quit", Failure, driver[c])

\* Lines 382-386.
OcrQuit(c) ==
    /\ task[c]["ocr"].stage = "quit"
    /\ \E quitThrew \in BOOLEAN : Quit(c, "ocr", quitThrew)

(***************************************************************************)
(* extractDocument, lines 389-423.                                         *)
(***************************************************************************)
\* Lines 390-396 and, for .doc and for the URLs no branch parses, the rest of
\* the function.
DocumentDownload(c) ==
    /\ task[c]["document"].stage = "download"
    /\ \/ Settle(c, "document", catchNull(Failure), driver[c])
       \/ /\ DocumentKind(processedUrl[c]) \in {"pdf", "docx"}
          /\ Advance(c, "document", "parse", Null, driver[c])
       \/ /\ DocumentKind(processedUrl[c]) = "doc"
          /\ \E t \in Texts : Settle(c, "document", DocumentResult(t), driver[c])
       \/ /\ DocumentKind(processedUrl[c]) = "other"
          /\ Settle(c, "document", DocumentResult(EmptyText), driver[c])

\* Lines 398-410 and 415-422: the PDF parser's promise or mammoth's.
DocumentParse(c) ==
    /\ task[c]["document"].stage = "parse"
    /\ \/ \E t \in Texts : Settle(c, "document", DocumentResult(t), driver[c])
       \/ Settle(c, "document", catchNull(Failure), driver[c])

(***************************************************************************)
(* The specification: one fetchContent call and its extractors.            *)
(***************************************************************************)
Next ==
    \E c \in SoloCalls :
        \/ \E u \in Urls, rawFlag \in BOOLEAN : fetchContent(c, u, rawFlag)
        \/ \E response \in Responses(processedUrl[c]) : HttpReturns(c, response)
        \/ HttpThrows(c)
        \/ BrowserBuild(c) \/ BrowserGet(c) \/ BrowserWait(c) \/ BrowserSource(c)
        \/ BrowserQuit(c)
        \/ OcrBuild(c) \/ OcrGet(c) \/ OcrWait(c) \/ OcrScreenshot(c) \/ OcrRecognize(c)
        \/ OcrQuit(c)
        \/ DocumentDownload(c) \/ DocumentParse(c)
        \/ Timeout(c) \/ LateTimer(c)

Spec == Init /\ [][Next]_vars

(***************************************************************************)
(* selectBestResult called on its own, on every sequence of at most        *)
(* MaxResults results whose scores are those of the example (30, 85, 60).  *)
(***************************************************************************)
MaxResults == 3

ExampleScores == {30, 60, 85}

Candidates ==
    {Result(Payload("markdown", NoText), m, Points(n), << >>) :
        m \in Extractors, n \in ExampleScores}

CandidateSeqs == UNION {[1..n -> Candidates] : n \in 1..MaxResults}

SelectInit ==
    /\ FetchInit
    /\ candidates \in CandidateSeqs
    /\ selected = Null
    /\ InstanceInit
    /\ ScoreIdle
    /\ UrlIdle
    /\ ToolIdle
    /\ ServiceIdle

ApplySelect ==
    /\ selected = Null
    /\ selected' = selectBestResult(candidates)
    /\ UNCHANGED << candidates, fetchVars, instanceVars, scoreVars, urlVars, toolVars, serviceVars >>

SelectNext == ApplySelect

SelectSpec == SelectInit /\ [][SelectNext]_vars

(***************************************************************************)
(* Two fetchContent calls on one WebFetcher instance, interleaved at their *)
(* awaits in every way, and cleanup() called at any time.  Each call is    *)
(* for one of two pages and asks for its normalized content, and each page *)
(* has one text, whichever extractor reads it; any step of an extractor    *)
(* may still fail.                                                         *)
(***************************************************************************)
ConcurrentUrls == {PageUrl, BlobUrl}

ConcurrentRaw == {FALSE}

\* The text of the page at a URL.
ServedBy(u) == IF u = PageUrl THEN RichText ELSE MediumText

\* The texts a call has been answered with.
AnswersOf(c) ==
    {r.content.text : r \in ({httpResult[c]} \cup {task[c][e].pending : e \in Extractors})
                              \ {Null, Failure}}

ConcurrentInputs(c) ==
    /\ url[c] \in ConcurrentUrls
    /\ AnswersOf(c) \subseteq {ServedBy(url[c])}

\* Lines 505-510: if (this.driver) { await this.driver.quit(); this.driver =
\* null }.  When quit() rejects the field keeps the driver.
cleanup ==
    /\ IF instanceDriver = "null"
       THEN UNCHANGED instanceDriver
       ELSE instanceDriver' \in {"null", "quit"}
    /\ UNCHANGED << fetchVars, selectVars, scoreVars, urlVars, toolVars, serviceVars >>

ConcurrentNext ==
    \/ \E c \in AllCalls :
        \/ \E u \in ConcurrentUrls, rawFlag \in ConcurrentRaw : fetchContent(c, u, rawFlag)
        \/ \E response \in Responses(processedUrl[c]) :
              HttpReturns(c, response) /\ ConcurrentInputs(c)'
        \/ HttpThrows(c)
        \/ BrowserBuild(c) \/ BrowserGet(c) \/ BrowserWait(c)
        \/ BrowserSource(c) /\ ConcurrentInputs(c)'
        \/ BrowserQuit(c)
        \/ OcrBuild(c) \/ OcrGet(c) \/ OcrWait(c) \/ OcrScreenshot(c)
        \/ OcrRecognize(c) /\ ConcurrentInputs(c)'
        \/ OcrQuit(c)
        \/ Timeout(c) \/ LateTimer(c)
    \/ cleanup

ConcurrentSpec == Init /\ [][ConcurrentNext]_vars

(***************************************************************************)
(* calculateScore called on its own, with every method tag, on every       *)
(* content whose features a string can have: a paragraph counted by line   *)
(* 435 takes more than 50 characters and a blank line separates two, and   *)
(* an error word, a heading marker and a link take a few characters each.  *)
(***************************************************************************)
MaxParagraphs == 13

ScoreLengths == {0, 60, 99, 100, 101, 150, 1700, 3200, 4999, 5000, 5001, 6050}

\* The length of the shortest string with a text's features.
MinLength(text) ==
    (IF text.paras > 0 THEN 51 * text.paras + 2 * (text.paras - 1) ELSE 0)
    + (IF text.errors THEN 5 ELSE 0)
    + (IF text.heading THEN 2 ELSE 0)
    + (IF text.link THEN 4 ELSE 0)

ScoreTexts ==
    {t \in [len : ScoreLengths, paras : 0..MaxParagraphs, errors : BOOLEAN,
            heading : BOOLEAN, link : BOOLEAN] : MinLength(t) <= t.len}

ScoreInit ==
    /\ FetchInit /\ SelectIdle /\ InstanceInit /\ UrlIdle /\ ToolIdle /\ ServiceIdle
    /\ scoreContent \in {Payload("text", t) : t \in ScoreTexts}
    /\ scores = NotScored

ApplyScore(m) ==
    /\ scores[m] = << >>
    /\ scores' = [scores EXCEPT ![m] = << calculateScore(scoreContent, m) >>]
    /\ UNCHANGED << scoreContent, fetchVars, selectVars, instanceVars, urlVars, toolVars, serviceVars >>

ScoreNext == \E m \in ScoreMethods : ApplyScore(m)

ScoreSpec == ScoreInit /\ [][ScoreNext]_vars

(***************************************************************************)
(* processGitHubUrl called on its own, on the URLs of repository pages     *)
(* (blob, tree and issues pages of two owners, with and without a path),   *)
(* on the same URLs behind a mirror's prefix, and on the URLs of Urls.     *)
(***************************************************************************)
UrlOwners == {"o", "q"}

UrlWords == {"blob", "tree", "issues"}

\* What follows the branch: nothing, a "/" alone, a file, a directory path,
\* and directory paths that hold a vendored repository's own path.
UrlTails ==
    {<< >>, << "" >>, << "README.md" >>, << "src", "lib" >>,
     << "vendor", "github.com", "a", "b", "blob", "c", "d" >>,
     << "vendor", "github.com", "a", "b", "tree", "c", "d" >>}

UrlPrefixes == {<< >>, << "example.com", "mirror" >>}

GitHubUrls ==
    {Url(p \o << "github.com", o, "r", w, "main" >> \o t, << >>) :
        p \in UrlPrefixes, o \in UrlOwners, w \in UrlWords, t \in UrlTails}

UrlInit ==
    /\ FetchInit /\ SelectIdle /\ InstanceInit /\ ScoreIdle /\ ToolIdle /\ ServiceIdle
    /\ urlArgument \in GitHubUrls \cup Urls
    /\ urlReturned = << >>

\* How many times processGitHubUrl is applied, each time to what it returned.
MaxApplications == 2

ApplyProcess ==
    /\ Len(urlReturned) < MaxApplications
    /\ urlReturned' = Append(urlReturned,
                             processGitHubUrl(IF urlReturned = << >> THEN urlArgument
                                              ELSE urlReturned[Len(urlReturned)]))
    /\ UNCHANGED << urlArgument, fetchVars, selectVars, instanceVars, scoreVars, toolVars, serviceVars >>

UrlNext == ApplyProcess

UrlSpec == UrlInit /\ [][UrlNext]_vars

(***************************************************************************)
(* The handler of the fetch tool, lines 54-89, in front of one call: the   *)
(* client sends any arguments, or none, and the pages the environment      *)
(* serves are those of ConcurrentUrls.                                     *)
(***************************************************************************)
\* The empty string.
EmptyUrl == Url(<< >>, << >>)

\* What args.url may be: undefined (the key is missing), a string, a number.
UrlValues ==
    {[type |-> "undefined", value |-> EmptyUrl], [type |-> "number", value |-> EmptyUrl]}
    \cup {[type |-> "string", value |-> u] : u \in ConcurrentUrls \cup {EmptyUrl}}

\* request.params.arguments: optional in a tool call, so undefined ("absent")
\* or an object.
ToolArguments ==
    {[kind |-> "absent"]}
    \cup {[kind |-> "object", url |-> v, raw |-> b] : v \in UrlValues, b \in BOOLEAN}

\* The negation of line 61's test: !url || typeof url !== 'string'.
ValidUrl(v) == v.type = "string" /\ v.value # EmptyUrl

ValidationError == "URL is required and must be a string"
\* The TypeError of destructuring undefined (line 59).
DestructureError == "Cannot destructure property 'url' of 'args' as it is undefined."

\* Lines 75-84: the text is `Error fetching content: ` and the message.
ErrorResponse(message) == [isError |-> TRUE, message |-> message, text |-> Undefined]

\* Lines 67-74.
OkResponse(text) == [isError |-> FALSE, message |-> "none", text |-> text]

\* Lines 54-65: the handler up to its await of fetchContent, or to its catch
\* block.
CallTool(c, args) ==
    /\ toolRequest[c] = NoRequest
    /\ pc[c] = "idle"
    /\ toolRequest' = [toolRequest EXCEPT ![c] = args]
    /\ IF args.kind = "absent"
       THEN /\ toolResponse' = [toolResponse EXCEPT ![c] = ErrorResponse(DestructureError)]
            /\ UNCHANGED fetchVars
       ELSE IF ~ValidUrl(args.url)
       THEN /\ toolResponse' = [toolResponse EXCEPT ![c] = ErrorResponse(ValidationError)]
            /\ UNCHANGED fetchVars
       ELSE /\ fetchContentStart(c, args.url.value, args.raw)
            /\ UNCHANGED toolResponse
    /\ UNCHANGED << selectVars, instanceVars, scoreVars, urlVars, serviceVars >>

\* Lines 65-85: fetchContent has settled; the handler returns its result, or
\* catches its error.
Respond(c) ==
    /\ toolRequest[c] # NoRequest
    /\ toolResponse[c] = NoResponse
    /\ pc[c] = "done"
    /\ toolResponse' = [toolResponse EXCEPT ![c] =
                           IF thrown[c] # NoError THEN ErrorResponse(thrown[c])
                           ELSE OkResponse(returned[c])]
    /\ UNCHANGED << toolRequest, fetchVars, selectVars, instanceVars, scoreVars,
                    urlVars, serviceVars >>

ToolNext ==
    \E c \in SoloCalls :
        \/ \E args \in ToolArguments : CallTool(c, args)
        \/ Respond(c)
        \/ \E resp \in Responses(processedUrl[c]) :
              HttpReturns(c, resp) /\ ConcurrentInputs(c)'
        \/ HttpThrows(c)
        \/ BrowserBuild(c) \/ BrowserGet(c) \/ BrowserWait(c)
        \/ BrowserSource(c) /\ ConcurrentInputs(c)'
        \/ BrowserQuit(c)
        \/ OcrBuild(c) \/ OcrGet(c) \/ OcrWait(c) \/ OcrScreenshot(c)
        \/ OcrRecognize(c) /\ ConcurrentInputs(c)'
        \/ OcrQuit(c)
        \/ Timeout(c) \/ LateTimer(c)

ToolSpec == Init /\ [][ToolNext]_vars

(***************************************************************************)
(* checkRateLimit of the two search servers, called at arbitrary times.    *)
(* A server is either freshly loaded or, for duckduckgo, one that has      *)
(* admitted all but MonthMargin of its monthly requests, the last of them  *)
(* at the present instant in a window that began then.                     *)
(***************************************************************************)
MaxRequests == 7

MaxMs == 2004

MaxDays == 60

MonthMargin == 2

Delays == {Time(0, 500), Time(0, 501), Time(30, 0)}

\* The comparison of a counter with its limit.
ReachedStrictly(count, limit) == count > limit

Reached(count, limit) == count >= limit

\* src/duckduckgo/src/index.ts, checkRateLimit called at time t on count rc.
checkRateLimitDuckDuckGo(rc, t) ==
    LET reset == IF Exceeds(Elapsed(t, rc.lastReset), SecondInMs)
                 THEN [rc EXCEPT !.second = 0, !.lastReset = t]
                 ELSE rc
    IN  IF \/ Reached(reset.second, perSecond("duckduckgo"))
           \/ Reached(reset.month, perMonth("duckduckgo"))
        THEN [requestCount |-> reset, error |-> RateLimitExceeded]
        ELSE [requestCount |-> [reset EXCEPT !.second = @ + 1, !.month = @ + 1],
              error |-> NoRateError]

\* src/searxng/src/index.ts, checkRateLimit called at time t on count rc.
checkRateLimitSearxng(rc, t) ==
    LET second == IF Exceeds(Elapsed(t, rc.lastSecondReset), SecondInMs)
                  THEN [rc EXCEPT !.second = 0, !.lastSecondReset = t]
                  ELSE rc
        reset == IF Exceeds(Elapsed(t, second.lastMonthReset), monthInMs)
                 THEN [second EXCEPT !.month = 0, !.lastMonthReset = t]
                 ELSE second
    IN  IF Reached(reset.second, perSecond("searxng"))
        THEN [requestCount |-> reset, error |-> PerSecondExceeded]
        ELSE IF Reached(reset.month, perMonth("searxng"))
        THEN [requestCount |-> reset, error |-> PerMonthExceeded]
        ELSE [requestCount |-> [reset EXCEPT !.second = @ + 1, !.month = @ + 1],
              error |-> NoRateError]

RateInit ==
    /\ FetchInit /\ SelectIdle /\ InstanceInit /\ ScoreIdle /\ UrlIdle /\ ToolIdle
    /\ MonitorIdle /\ SearchIdle
    /\ server \in Servers
    /\ now = Time(0, 0)
    /\ rateError = NoRateError
    /\ rateCalls = 0
    /\ \/ /\ requestCount = FreshCount(server, now)
          /\ admitted = << >>
          /\ admittedTotal = 0
       \/ /\ server = "duckduckgo"
          /\ requestCount = [second |-> 1,
                             month |-> perMonth(server) - MonthMargin,
                             lastReset |-> now]
          /\ admitted = << now >>
          /\ admittedTotal = perMonth(server) - MonthMargin

\* One call of checkRateLimit at the present instant.
checkRateLimitCall ==
    /\ rateCalls < MaxRequests
    /\ LET out == IF server = "duckduckgo"
                  THEN checkRateLimitDuckDuckGo(requestCount, now)
                  ELSE checkRateLimitSearxng(requestCount, now)
       IN  /\ requestCount' = out.requestCount
           /\ rateError' = out.error
           /\ admitted' = IF out.error = NoRateError THEN Append(admitted, now)
                                                     ELSE admitted
           /\ admittedTotal' = IF out.error = NoRateError THEN admittedTotal + 1
                                                          ELSE admittedTotal
    /\ rateCalls' = rateCalls + 1
    /\ UNCHANGED << server, now, fetchVars, selectVars, instanceVars, scoreVars,
                    urlVars, toolVars, monitorVars >>

\* A search request: the tool handler calls checkRateLimit first.
checkRateLimit == checkRateLimitCall /\ UNCHANGED searchVars

\* Time passes between two requests.
Elapse ==
    /\ \E d \in Delays :
          /\ now.ms + d.ms <= MaxMs
          /\ now.d + d.d <= MaxDays
          /\ now' = Plus(now, d)
    /\ UNCHANGED << server, requestCount, rateError, admitted, admittedTotal, rateCalls,
                    fetchVars, selectVars, instanceVars, scoreVars, urlVars, toolVars,
                    monitorVars, searchVars >>

RateNext == checkRateLimit \/ Elapse

RateSpec == RateInit /\ [][RateNext]_vars

(***************************************************************************)
(* The lifecycle manager at work: monitor passes, one container of the     *)
(* list at a time, unpause requests, traffic and time in between.          *)
(***************************************************************************)
MaxClock == 3602

Waits == {INACTIVITY_THRESHOLD, INACTIVITY_THRESHOLD + 1}

MonitorInit ==
    /\ FetchInit /\ SelectIdle /\ InstanceInit /\ ScoreIdle /\ UrlIdle /\ ToolIdle
    /\ RateIdle /\ SearchIdle
    /\ clock = 0
    /\ dockerState \in [ContainerNames -> {"absent", "exited", "running"}]
    /\ netIO = [c \in ContainerNames |-> 1]
    /\ stateFile = [c \in ContainerNames |-> NoFile]
    /\ monitorAt = 0
    /\ lastCommand = NoCommand
    /\ exitStatus = 0
    /\ lastRun = "none"
    /\ trafficAt = [c \in ContainerNames |-> Never]
    /\ requestAt = [c \in ContainerNames |-> Never]

notMonitorVars ==
    << fetchVars, selectVars, instanceVars, scoreVars, urlVars, toolVars, rateVars,
       searchVars >>

\* One turn of the loop of monitor_containers, under set -e: the call of
\* unpause_container of line 99 is a simple command, and its return status 1,
\* for a container that is not paused, ends the script there.
monitor_containers ==
    LET c == Monitored[monitorAt + 1]
        next == IF monitorAt + 1 = Len(Monitored) THEN 0 ELSE monitorAt + 1
        current_bytes == get_network_bytes(NetIOSamples[netIO[c]])
        last_bytes == IF stateFile[c] = NoFile THEN << "0" >> ELSE stateFile[c].bytes
        active == current_bytes # last_bytes
        last_activity_time ==
            IF active \/ stateFile[c] = NoFile THEN clock ELSE stateFile[c].time
        unpaused == unpause_container(dockerState[c])
        resumed == IF active THEN unpaused.state ELSE dockerState[c]
        inactive_time == clock - last_activity_time
        paused == pause_container(resumed)
        pausing == inactive_time > INACTIVITY_THRESHOLD /\ paused.issued
    IN  /\ lastRun' = "monitor"
        /\ IF dockerState[c] = "absent"
           THEN /\ monitorAt' = next
                /\ exitStatus' = IF next = 0 THEN 0 ELSE exitStatus
                /\ UNCHANGED << clock, dockerState, netIO, stateFile, lastCommand,
                                trafficAt, requestAt, notMonitorVars >>
           ELSE IF active /\ unpaused.status # 0
           THEN /\ monitorAt' = 0
                /\ exitStatus' = unpaused.status
                /\ UNCHANGED << clock, dockerState, netIO, stateFile, lastCommand,
                                trafficAt, requestAt, notMonitorVars >>
           ELSE /\ stateFile' = [stateFile EXCEPT
                       ![c] = [bytes |-> current_bytes, time |-> last_activity_time]]
                /\ dockerState' = [dockerState EXCEPT
                       ![c] = IF pausing THEN paused.state ELSE resumed]
                /\ lastCommand' =
                       IF pausing THEN Command("pause", c, resumed)
                       ELSE IF active THEN Command("unpause", c, dockerState[c])
                       ELSE lastCommand
                /\ monitorAt' = next
                /\ exitStatus' = IF next = 0 THEN 0 ELSE exitStatus
                /\ UNCHANGED << clock, netIO, trafficAt, requestAt, notMonitorVars >>

\* The script run as `unpause <container>`.
handle_request(c) ==
    LET unpaused == unpause_container(dockerState[c])
    IN  /\ dockerState[c] # "absent"
        /\ dockerState' = [dockerState EXCEPT ![c] = unpaused.state]
        /\ lastCommand' = IF unpaused.issued THEN Command("unpause", c, dockerState[c])
                                             ELSE lastCommand
        /\ exitStatus' = unpaused.status
        /\ lastRun' = "unpause"
        /\ requestAt' = IF unpaused.issued THEN [requestAt EXCEPT ![c] = clock]
                                           ELSE requestAt
        /\ UNCHANGED << clock, netIO, stateFile, monitorAt, trafficAt, notMonitorVars >>

\* Bytes go to or from a container that exists and is not stopped: docker
\* stats shows its next NetIO line.
Traffic(c) ==
    /\ is_running(dockerState[c])
    /\ netIO[c] < Len(NetIOSamples)
    /\ netIO' = [netIO EXCEPT ![c] = @ + 1]
    /\ trafficAt' = [trafficAt EXCEPT ![c] = clock]
    /\ UNCHANGED << clock, dockerState, stateFile, monitorAt, lastCommand, exitStatus,
                    lastRun, requestAt, notMonitorVars >>

Wait ==
    /\ \E d \in Waits :
          /\ clock + d <= MaxClock
          /\ clock' = clock + d
    /\ UNCHANGED << dockerState, netIO, stateFile, monitorAt, lastCommand, exitStatus,
                    lastRun, trafficAt, requestAt, notMonitorVars >>

MonitorNext ==
    \/ monitor_containers
    \/ \E c \in ContainerNames : handle_request(c)
    \/ \E c \in ContainerNames : Traffic(c)
    \/ Wait

MonitorSpec == MonitorInit /\ [][MonitorNext]_vars

(***************************************************************************)
(* What the claims speak of.                                               *)
(***************************************************************************)
Done(c) == pc[c] = "done"

\* The call returned on the fast path: the race was never set up.
FastPath(c) == Done(c) /\ timer[c] = "unset"

Stage(c, e) == task[c][e].stage

Launched(c, e) == Stage(c, e) # "none"

InFlight(c, e) == Stage(c, e) \notin {"none", "settled"}

IsResult(p) == p \notin {Null, Failure}

\* The results the parallel-phase extractors have completed with.
ParallelResults(c) ==
    {task[c][e].pending : e \in {x \in Extractors : Stage(c, x) = "settled"}}
    \ {Null, Failure}

\* Every result an extraction attempt of the call has completed with.
CompletedResults(c) == ParallelResults(c) \cup ({httpResult[c]} \ {Null})

IsMaxOf(r, rs) == r \in rs /\ \A q \in rs : q.score <= r.score

(***************************************************************************)
(* The claims.                                                             *)
(***************************************************************************)

\* The results a call that has settled had to choose from: the HTTP result
\* on the fast path, and after it the results the parallel-phase extractors
\* have completed with.
ChoiceSet(c) == IF FastPath(c) THEN {httpResult[c]} ELSE ParallelResults(c)

\* C1's outcome, as claimed: the call has settled once; with no completed
\* result it has failed, and otherwise it has returned the output of a
\* completed result of maximum score.
C1Outcome(c) ==
    /\ settleCount[c] = 1
    /\ IF ChoiceSet(c) = {}
       THEN thrown[c] # NoError /\ returned[c] = Undefined
       ELSE /\ thrown[c] = NoError
            /\ \E r \in ChoiceSet(c) :
                  IsMaxOf(r, ChoiceSet(c)) /\ returned[c] = Output(r, raw[c])

\* C1 as claimed: at the step that settles a fetchContent call, the call
\* returns a maximum-score result among the results completed by then, and
\* fails only when there is none.
C1_Original ==
    [][\A c \in AllCalls : (pc[c] # "done" /\ pc'[c] = "done") => C1Outcome(c)']_vars

\* C1 as amended: every fetchContent call settles exactly once and never both
\* returns and fails.  On the fast path it returns the HTTP result, whose
\* score exceeds 50.  Otherwise, when the timeout fires first it fails with
\* the timeout error whatever had completed; when all launched extractors
\* settle first it returns a maximum-score result among the Browser, Document
\* and OCR results (never a non-maximal one), or fails with 'All extraction
\* methods failed' when there is none.
C1_ExactlyOneMaximal ==
    \A c \in AllCalls :
        /\ ~(returned[c] # Undefined /\ thrown[c] # NoError)
        /\ ~Done(c) => settleCount[c] = 0 /\ returned[c] = Undefined /\ thrown[c] = NoError
        /\ Done(c) =>
             /\ settleCount[c] = 1
             /\ (returned[c] # Undefined) # (thrown[c] # NoError)
             /\ IF FastPath(c)
                THEN /\ httpResult[c] # Null /\ httpResult[c].score > Points(50)
                     /\ returned[c] = Output(httpResult[c], raw[c])
                ELSE IF thrown[c] = TimeoutError
                THEN timer[c] = "fired"
                ELSE /\ \A e \in Extractors : ~InFlight(c, e)
                     /\ IF ParallelResults(c) = {}
                        THEN thrown[c] = AllFailedError
                        ELSE \E r \in ParallelResults(c) :
                                /\ IsMaxOf(r, ParallelResults(c))
                                /\ returned[c] = Output(r, raw[c])

\* C1's case: a call returned after a parallel phase in which two extractors
\* completed with results of different scores.
C1_Witness ==
    \E c \in AllCalls :
        /\ Done(c) /\ ~FastPath(c) /\ returned[c] # Undefined
        /\ \E r, q \in ParallelResults(c) : r.score < q.score

\* C2: an HTTP result with score > 50 is returned at once, with no Browser,
\* Document or OCR extractor invoked, no browser launched and no timer armed;
\* an HTTP result with score 50 or lower starts the parallel phase.
C2_FastPathShortCircuit ==
    \A c \in AllCalls :
        httpResult[c] # Null =>
            IF httpResult[c].score > Points(50)
            THEN /\ Done(c)
                 /\ returned[c] = Output(httpResult[c], raw[c])
                 /\ thrown[c] = NoError
                 /\ \A e \in Extractors : ~Launched(c, e)
                 /\ \A e \in BrowserUsers : driver[c][e] = "null"
                 /\ timer[c] = "unset"
            ELSE Launched(c, "browser") /\ timer[c] # "unset"

\* C2's case: the HTTP result scored 72 and was returned.
C2_Witness ==
    \E c \in AllCalls :
        /\ Done(c)
        /\ httpResult[c] # Null /\ httpResult[c].score = Points(72)
        /\ returned[c] = httpResult[c].content

\* C3: selectBestResult over a non-empty collection returns a result of the
\* collection whose score is at least every other score, and among the
\* results of that score the first in collection order.
C3_SelectBest ==
    selected # Null =>
        \E i \in 1..Len(candidates) :
            /\ selected = candidates[i]
            /\ \A j \in 1..Len(candidates) : candidates[j].score <= candidates[i].score
            /\ \A j \in 1..(i - 1) : candidates[j].score < candidates[i].score

\* C3's case: the maximum score is shared by results of two methods, and
\* selectBestResult has returned.
C3_Witness ==
    /\ selected # Null
    /\ \E i, j \in 1..Len(candidates) :
          /\ i < j
          /\ candidates[i].score = selected.score
          /\ candidates[j].score = selected.score
          /\ candidates[i].method # candidates[j].method
          /\ \E k \in 1..Len(candidates) : candidates[k].score < selected.score

\* C4: an extractor's failure never surfaces to the caller of fetchContent,
\* and when the parallel phase ends before the timeout every result a sibling
\* completed with is in the collection and the call returns.
C4_FailureIsLocal ==
    \A c \in AllCalls :
        /\ thrown[c] # ExtractorError
        /\ (Done(c) /\ ~FastPath(c) /\ thrown[c] # TimeoutError) =>
              \A r \in ParallelResults(c) :
                  /\ \E i \in 1..Len(results[c]) : results[c][i] = r
                  /\ returned[c] # Undefined
                  /\ thrown[c] = NoError

\* C4's case: the Browser extractor failed, the OCR extractor succeeded, and
\* the call returned the OCR result.
C4_Witness ==
    \E c \in AllCalls :
        /\ Done(c)
        /\ Stage(c, "browser") = "settled" /\ task[c]["browser"].pending = Null
        /\ Stage(c, "ocr") = "settled" /\ IsResult(task[c]["ocr"].pending)
        /\ bestResult[c] = task[c]["ocr"].pending
        /\ returned[c] # Undefined

\* C5: when the HTTP attempt gave no result and every launched extractor has
\* settled with none, and the call did not time out, the call has failed with
\* 'All extraction methods failed'.
C5_AllFailed ==
    \A c \in AllCalls :
        ( /\ pc[c] \notin {"idle", "http"}
          /\ httpResult[c] = Null
          /\ \A e \in Extractors : ~InFlight(c, e) /\ ~IsResult(task[c][e].pending)
          /\ thrown[c] # TimeoutError )
        => (Done(c) /\ thrown[c] = AllFailedError /\ returned[c] = Undefined)

\* C5's case: the HTTP attempt threw, the launched extractors all failed, and
\* the call failed.
C5_Witness ==
    \E c \in AllCalls :
        /\ httpThrew[c]
        /\ Stage(c, "browser") = "settled" /\ Stage(c, "ocr") = "settled"
        /\ Stage(c, "document") = "settled"
        /\ thrown[c] = AllFailedError

\* C6: once the timer has fired, either every launched extractor had settled
\* (and the call had settled without it), or the call has failed with the
\* timeout error, which is not the total-failure error, and returned nothing.
C6_TimeoutFails ==
    \A c \in AllCalls :
        /\ TimeoutError # AllFailedError
        /\ thrown[c] = TimeoutError => timer[c] = "fired"
        /\ timer[c] = "fired" =>
              /\ Done(c)
              /\ \/ thrown[c] = TimeoutError /\ returned[c] = Undefined
                 \/ thrown[c] # TimeoutError /\ \A e \in Extractors : ~InFlight(c, e)

\* C6's case: the call failed with the timeout error while one extractor had
\* completed with a result and another had not started its browser.
C6_Witness ==
    \E c \in AllCalls :
        /\ thrown[c] = TimeoutError
        /\ Stage(c, "document") = "settled" /\ IsResult(task[c]["document"].pending)
        /\ Stage(c, "browser") = "build"

\* C7 as claimed: whenever an extraction attempt of the call (fast-path HTTP,
\* Browser, Document or OCR) produced a result and the call did not time out,
\* the call returns content; it fails with 'All extraction methods failed'
\* only when every attempted method produced no result.
C7_Claim ==
    \A c \in AllCalls :
        /\ (Done(c) /\ thrown[c] # TimeoutError /\ CompletedResults(c) # {})
              => returned[c] # Undefined
        /\ thrown[c] = AllFailedError => CompletedResults(c) = {}

\* C8: when a Browser or OCR extractor call has returned or thrown, the
\* browser it launched has been quit; a browser runs only while its extractor
\* is between its build and the end of its finally block.
C8_BrowserQuitOnExit ==
    \A c \in AllCalls : \A e \in BrowserUsers :
        /\ Stage(c, e) = "settled" => driver[c][e] # "running"
        /\ driver[c][e] = "running" => Stage(c, e) \notin {"none", "build", "settled"}
        /\ Stage(c, e) \in {"none", "build"} => driver[c][e] = "null"

\* C8's case: the Browser extractor returned a result and the OCR extractor
\* threw after launching its browser; both browsers have been quit.
C8_Witness ==
    \E c \in AllCalls :
        /\ Stage(c, "browser") = "settled" /\ IsResult(task[c]["browser"].pending)
        /\ Stage(c, "ocr") = "settled" /\ task[c]["ocr"].pending = Null
        /\ driver[c]["browser"] = "quit" /\ driver[c]["ocr"] = "quit"

\* C9 as claimed: once the call has failed with the timeout error, no browser
\* launched by the call is alive.
C9_Original ==
    \A c \in AllCalls :
        thrown[c] = TimeoutError => \A e \in BrowserUsers : driver[c][e] # "running"

\* The next step of a browser-driving extractor.
ExtractorStep(c, e) ==
    IF e = "browser"
    THEN BrowserGet(c) \/ BrowserWait(c) \/ BrowserSource(c) \/ BrowserQuit(c)
    ELSE OcrGet(c) \/ OcrWait(c) \/ OcrScreenshot(c) \/ OcrRecognize(c) \/ OcrQuit(c)

\* C9 as amended: the timeout cancels nothing.  After the call has failed
\* with the timeout error, a browser launched by it is alive only while its
\* extractor task is still in flight, that task can still take its next step,
\* and a task that has settled has quit its browser: the teardown is done by
\* each task's own finally block when the task runs to its end.
C9_TeardownByTask ==
    \A c \in AllCalls :
        thrown[c] = TimeoutError =>
            \A e \in BrowserUsers :
                /\ driver[c][e] = "running" =>
                      InFlight(c, e) /\ ENABLED ExtractorStep(c, e)
                /\ Stage(c, e) = "settled" => driver[c][e] \in {"null", "quit"}

\* C9's case: the call has failed with the timeout error; the Browser
\* extractor's browser is still alive and the OCR extractor, which got as far
\* as its page wait, has settled and quit its own.
C9_Witness ==
    \E c \in AllCalls :
        /\ thrown[c] = TimeoutError
        /\ driver[c]["browser"] = "running"
        /\ Stage(c, "ocr") = "settled" /\ driver[c]["ocr"] = "quit"

\* The raw payload a result's metadata holds: the page markup, or the
\* screenshot.
HoldsRawPayload(r) == DOMAIN r.metadata \cap {"rawHtml", "screenshot"} # {}

RawPayload(r) ==
    IF "rawHtml" \in DOMAIN r.metadata THEN r.metadata["rawHtml"]
    ELSE r.metadata["screenshot"]

\* C10 as claimed: for the result fetchContent selected, on the fast path or
\* in the parallel phase, a call with raw true returns exactly the raw payload
\* its metadata holds, and a call with raw false returns its content.
C10_Claim ==
    \A c \in AllCalls :
        (Done(c) /\ returned[c] # Undefined) =>
            LET r == IF FastPath(c) THEN httpResult[c] ELSE bestResult[c]
            IN  IF raw[c]
                THEN HoldsRawPayload(r) => returned[c] = RawPayload(r)
                ELSE returned[c] = r.content

\* C11 as claimed: at the step that launches the OCR extractor no extraction
\* method of the call has produced a result, and no Browser or Document
\* extraction of the call is pending or has succeeded.
C11_Claim ==
    [][\A c \in AllCalls :
          (~Launched(c, "ocr") /\ Launched(c, "ocr")') =>
              /\ httpResult'[c] = Null
              /\ \A e \in {"browser", "document"} :
                    ~InFlight(c, e)' /\ ~IsResult(task'[c][e].pending)]_vars

\* C12: while the fast-path HTTP extraction of a call has not settled, no
\* Browser, Document or OCR extractor of the call has been started, no browser
\* launched and no timer armed; an extractor is started only after the HTTP
\* extraction has returned or thrown.
C12_HttpPrecedesParallel ==
    \A c \in AllCalls :
        /\ pc[c] \in {"idle", "http"} =>
              /\ \A e \in Extractors : ~Launched(c, e)
              /\ \A e \in BrowserUsers : driver[c][e] = "null"
              /\ timer[c] = "unset"
              /\ httpResult[c] = Null /\ ~httpThrew[c]
        /\ (\E e \in Extractors : Launched(c, e)) =>
              /\ pc[c] \in {"race", "done"}
              /\ (httpResult[c] # Null) # httpThrew[c]

\* C12's case: the HTTP extraction returned a result that did not pass the
\* fast-path test, and the Browser, Document and OCR extractors are running.
C12_Witness ==
    \E c \in AllCalls :
        /\ httpResult[c] # Null /\ ~httpThrew[c]
        /\ \A e \in Extractors : InFlight(c, e)

\* The locals of a call and of its extractors.
CallState(c) ==
    << pc[c], url[c], raw[c], processedUrl[c], httpResult[c], httpThrew[c], task[c],
       driver[c], timer[c], extractionResults[c], results[c], bestResult[c],
       returned[c], thrown[c], settleCount[c] >>

\* What a call that ran alone and was answered as call c was resolves or
\* rejects with: the HTTP result on the fast path, the timeout error when its
\* timer fired during its race, and otherwise what lines 207-222 make of the
\* completions of its own extractors.
OutcomeAlone(c) ==
    IF FastPathAccepts(httpResult[c])
    THEN << Output(httpResult[c], raw[c]), NoError >>
    ELSE IF thrown[c] = TimeoutError
    THEN << Undefined, TimeoutError >>
    ELSE LET rs == PushNonNull(<< >>, Gathered(task[c]))
         IN  IF rs = << >> THEN << Undefined, AllFailedError >>
             ELSE << Output(selectBestResult(rs), raw[c]), NoError >>

\* C13: two calls interleaved on one instance share no mutable state.  Each
\* step changes the locals (result collection, browsers, timer, ...) of one
\* call at most; a call that has settled has the outcome it has alone with
\* the same answers, its collection holding its own extractors' results only;
\* and the instance field `driver` is null in every reachable state.
C13_NoSharedState ==
    /\ [](/\ instanceDriver = "null"
          /\ \A c \in AllCalls :
                Done(c) =>
                    /\ << returned[c], thrown[c] >> = OutcomeAlone(c)
                    /\ \A i \in 1..Len(results[c]) : results[c][i] \in ParallelResults(c))
    /\ [][\A c, d \in AllCalls :
            (c # d /\ CallState(c)' # CallState(c)) => CallState(d)' = CallState(d)]_vars

\* C13's case: both calls have returned, each the result of its own page,
\* after parallel phases that overlapped.
C13_Witness ==
    /\ Done("call1") /\ Done("call2")
    /\ ~FastPath("call1") /\ ~FastPath("call2")
    /\ returned["call1"] # Undefined /\ returned["call2"] # Undefined
    /\ returned["call1"] # returned["call2"]
    /\ bestResult["call1"].method = "ocr" /\ bestResult["call2"].method = "browser"

\* The methods calculateScore has been called with.
Scored == {m \in ScoreMethods : scores[m] # << >>}

\* C14: every score calculateScore returns, for any content and method tag,
\* is at least 0.
C14_ScoreFloor == \A m \in Scored : scores[m][1] >= 0

\* C14's case: calculateScore was called on a content whose components sum
\* to less than 0 (an error page too short to count), and returned 0.
C14_Witness ==
    /\ "ocr" \in Scored
    /\ scoreContent.text.errors /\ scoreContent.text.len < 100
    /\ scores["ocr"][1] = 0

\* What the components other than the method adjustment sum to.
BaseScore(content) ==
    LengthScore(content.text) + ParagraphScore(content.text) + ErrorScore(content.text)
    + StructureScore(content.text) + LinkScore(content.text)

\* C15 as claimed: for every content, the document score is strictly greater
\* than the ocr score, and exceeds it by 15 points.
C15_Original ==
    {"document", "ocr"} \subseteq Scored =>
        /\ scores["document"][1] > scores["ocr"][1]
        /\ scores["document"][1] - scores["ocr"][1] = Points(15)

\* C15 as amended: the document score is never below the ocr score.  It
\* exceeds it by exactly 15 points when the other components sum to 5 or
\* more (the ocr score is not floored), by less than 15 when they sum to less
\* than 5, and the two are both 0 when they sum to -10 or less.
C15_DocumentOverOcr ==
    {"document", "ocr"} \subseteq Scored =>
        LET d == scores["document"][1]
            o == scores["ocr"][1]
            b == BaseScore(scoreContent)
        IN  /\ d >= o
            /\ b >= Points(5) => d - o = Points(15)
            /\ b < Points(5) => o = 0 /\ d - o < Points(15)
            /\ b > 0 - Points(10) => d > o
            /\ b <= 0 - Points(10) => d = 0 /\ o = 0

\* C15's case: both scores were computed for a content on which the ocr
\* score is floored at 0 and the document score is 6, less than 15 above it.
C15_Witness ==
    /\ {"document", "ocr"} \subseteq Scored
    /\ scores["ocr"][1] = 0
    /\ scores["document"][1] = Points(6)

\* A content of length 100 or more with a counted paragraph, a heading marker
\* and a link.
Structured(content) ==
    /\ content.text.len >= 100
    /\ content.text.paras >= 1
    /\ content.text.heading /\ content.text.link

\* The content of the same length and error-pattern presence without the
\* three structural signals.
Unstructured(content) ==
    [content EXCEPT !.text = [@ EXCEPT !.paras = 0, !.heading = FALSE, !.link = FALSE]]

\* C16 as claimed: for every method, a structured content scores strictly
\* more than the equivalent content without the structural signals.
C16_Original ==
    \A m \in Scored :
        Structured(scoreContent) =>
            scores[m][1] > calculateScore(Unstructured(scoreContent), m)

\* C16 as amended: for every method, a structured content never scores less
\* than the equivalent content without the signals; it scores strictly more
\* exactly when its own score is above 0, which is so whenever no error
\* pattern matches; when the unstructured score is above 0 the difference is
\* the paragraph score plus 15; when its components sum to 0 or less both
\* scores are 0.
C16_StructureRaisesScore ==
    \A m \in Scored :
        Structured(scoreContent) =>
            LET with == scores[m][1]
                without == calculateScore(Unstructured(scoreContent), m)
            IN  /\ with >= without
                /\ (with > without) <=> (with > 0)
                /\ ~scoreContent.text.errors => with > without
                /\ without > 0 =>
                      with - without = ParagraphScore(scoreContent.text) + Points(15)
                /\ with = 0 => without = 0

\* C16's case: a structured content of length 100 without an error word was
\* scored for the browser method, 23 against 6 without the signals.
C16_Witness ==
    /\ "browser" \in Scored
    /\ Structured(scoreContent) /\ ~scoreContent.text.errors
    /\ scoreContent.text.len = 100
    /\ scores["browser"][1] = Points(23)
    /\ calculateScore(Unstructured(scoreContent), "browser") = Points(6)

\* The six components as C17 words them, in points: L, P, E, M, H, K.
ClaimedComponents(content, method) ==
    LET t == content.text
    IN  << IF t.len < 100 THEN 0 - 20 * ScoreScale
           ELSE IF t.len >= 5000 THEN 50 * ScoreScale ELSE t.len,
           IF t.paras >= 10 THEN 20 * ScoreScale ELSE 2 * t.paras * ScoreScale,
           IF t.errors THEN 0 - 30 * ScoreScale ELSE 0,
           CASE method = "browser" -> 5 * ScoreScale
             [] method = "http" -> 3 * ScoreScale
             [] method = "document" -> 10 * ScoreScale
             [] method = "ocr" -> 0 - 5 * ScoreScale
             [] OTHER -> 0,
           IF t.heading THEN 10 * ScoreScale ELSE 0,
           IF t.link THEN 5 * ScoreScale ELSE 0 >>

\* The components added up in a given order.
RECURSIVE SumInOrder(_, _, _)
SumInOrder(components, order, n) ==
    IF n = 0 THEN 0
    ELSE SumInOrder(components, order, n - 1) + components[order[n]]

\* The ways to order the six components.
ComponentOrders == Permutations(1..6)

C18_Claim ==
    {"browser", "http", "document", "ocr"} \subseteq Scored =>
        /\ scores["browser"][1] >= scores["http"][1]
        /\ scores["http"][1] >= scores["document"][1]
        /\ scores["document"][1] >= scores["ocr"][1]

\* C19: every score attached to a result lies in 0..100: the scores
\* calculateScore returns for any content and method, and the scores
\* extractWithHttp attaches, the fixed 80 and 90 of http-api among them.
C19_ScoreRange ==
    /\ \A m \in Scored : scores[m][1] >= 0 /\ scores[m][1] <= Points(100)
    /\ \A u \in {processGitHubUrl(x) : x \in Urls} : \A response \in Responses(u) :
          /\ extractWithHttp(u, response).score >= 0
          /\ extractWithHttp(u, response).score <= Points(100)

\* C19's case: calculateScore returned the highest score a content can get,
\* 95: a document of 5000 characters or more with ten counted paragraphs or
\* more, a heading and a link, and no error word.
C19_Witness ==
    /\ "document" \in Scored
    /\ scores["document"][1] = Points(95)
    /\ scoreContent.text.paras > 10 /\ scoreContent.text.len > 5000

\* A URL of a repository page of the given kind on github.com: the host, the
\* owner, the repository, the kind word, the branch and a "/" after it.
ShapedAs(u, word) ==
    /\ Len(u.segs) >= 6
    /\ u.segs[1] = "github.com"
    /\ u.segs[2] # "" /\ u.segs[3] # "" /\ u.segs[5] # ""
    /\ u.segs[4] = word

\* The path of a shaped URL.
PathOf(u) == SubSeq(u.segs, 6, Len(u.segs))

\* C20 as claimed: a blob-shaped URL for o, r, b, p is mapped to
\* raw.githubusercontent.com/o/r/b/p, a tree-shaped URL to
\* api.github.com/repos/o/r/contents/p?ref=b, and every other URL is returned
\* unchanged.
C20_Claim ==
    urlReturned # << >> =>
        LET u == urlArgument
            out == urlReturned[1]
        IN  /\ ShapedAs(u, "blob") =>
                  out = Url(<< "raw.githubusercontent.com", u.segs[2], u.segs[3],
                               u.segs[5] >> \o PathOf(u), u.refs)
            /\ ShapedAs(u, "tree") =>
                  out = Url(<< "api.github.com", "repos", u.segs[2], u.segs[3],
                               "contents" >> \o PathOf(u), u.refs \o << u.segs[5] >>)
            /\ (~ShapedAs(u, "blob") /\ ~ShapedAs(u, "tree")) => out = u

\* C21 as claimed: normalizing what processGitHubUrl returned returns it
\* unchanged.
C21_Claim ==
    Len(urlReturned) >= 2 => urlReturned[2] = urlReturned[1]

\* C22 as claimed: a fetch tool call whose url is missing, empty or not a
\* string is answered with the error 'URL is required and must be a string',
\* marked isError, and fetchContent is not invoked: no extractor runs and no
\* browser is launched.
C22_Claim ==
    \A c \in AllCalls :
        ( /\ toolRequest[c] # NoRequest
          /\ toolRequest[c].kind = "absent" \/ ~ValidUrl(toolRequest[c].url) )
        => /\ toolResponse[c] = ErrorResponse(ValidationError)
           /\ pc[c] = "idle"
           /\ \A e \in Extractors : ~Launched(c, e)
           /\ \A e \in BrowserUsers : driver[c][e] = "null"

\* The extension of a URL's path: that of its last segment, when the URL has
\* a path.
PathExtensions(u) ==
    IF Len(u.segs) < 2 THEN {}
    ELSE CASE u.segs[Len(u.segs)] = "paper.pdf" -> {".pdf"}
           [] u.segs[Len(u.segs)] = "notes.doc" -> {".doc"}
           [] u.segs[Len(u.segs)] = "report.docx" -> {".docx"}
           [] u.segs[Len(u.segs)] = "slides.pptx" -> {".pptx"}
           [] OTHER -> {}

\* C23 as claimed: in the parallel phase the Document extractor is launched
\* if and only if the path of the normalized URL has one of the extensions
\* pdf, doc, docx, pptx, ppt.
C23_Claim ==
    \A c \in AllCalls :
        pc[c] \in {"race", "done"} /\ ~FastPath(c) =>
            (Launched(c, "document")
                <=> PathExtensions(processedUrl[c]) \cap documentExtensions # {})

\* C24 as claimed: every result an extractor of the call produced has
\* non-empty content, and the call never returns the empty string.
C24_Claim ==
    \A c \in AllCalls :
        /\ \A r \in CompletedResults(c) : r.content.text.len > 0
        /\ returned[c] # Undefined => returned[c].text.len > 0

\* The admissions from the i-th on that fall in the 1000 ms beginning with it.
AdmittedWithinSecond(i) ==
    {j \in i..Len(admitted) : Exceeds(SecondInMs, Elapsed(admitted[j], admitted[i]))}

\* C25 as claimed: in every interval of 1000 ms checkRateLimit admits at most
\* perSecond requests (1 for duckduckgo, 5 for searxng).
C25_Claim ==
    \A i \in 1..Len(admitted) : Cardinality(AdmittedWithinSecond(i)) <= perSecond(server)

\* C26: the duckduckgo server admits at most 15000 requests: its monthly
\* counter is the number of requests admitted and never exceeds perMonth, and a
\* call of checkRateLimit that throws increments neither counter.
C26_MonthlyLimit ==
    /\ [](server = "duckduckgo" =>
            /\ requestCount.month = admittedTotal
            /\ requestCount.month <= perMonth(server))
    /\ [][(server = "duckduckgo" /\ rateCalls' # rateCalls /\ rateError' # NoRateError) =>
            /\ requestCount'.second <= requestCount.second
            /\ requestCount'.month = requestCount.month
            /\ admittedTotal' = admittedTotal]_vars

\* The duckduckgo server has admitted its 15000th request and has since
\* rejected one made in a later second.
C26_Witness ==
    /\ server = "duckduckgo"
    /\ admittedTotal = perMonth(server)
    /\ requestCount.second = 0
    /\ rateError = RateLimitExceeded

\* A docker pause of container c takes effect in this step.
Pauses(c) == dockerState[c] # "paused" /\ dockerState'[c] = "paused"

\* C27 as claimed: a container is paused only if it was running and not
\* paused, more than INACTIVITY_THRESHOLD seconds after its last recorded
\* activity and never within that time of a change of its network byte count;
\* docker unpause is issued only for a paused container.
C27_Claim ==
    [][/\ \A c \in ContainerNames :
            Pauses(c) =>
                /\ dockerState[c] = "running"
                /\ clock - stateFile'[c].time > INACTIVITY_THRESHOLD
                /\ trafficAt[c] # Never => clock - trafficAt[c] > INACTIVITY_THRESHOLD
       /\ (lastCommand' # lastCommand /\ lastCommand'.cmd = "unpause") =>
            lastCommand'.on = "paused"]_vars

\* C28 as claimed: a request for a paused container unpauses it with exit
\* status 0, and the monitor does not pause the container again before
\* INACTIVITY_THRESHOLD seconds have passed since the request.
C28_Claim ==
    [][\A c \in ContainerNames :
          /\ (requestAt'[c] # requestAt[c]) =>
                dockerState'[c] = "running" /\ exitStatus' = 0
          /\ (Pauses(c) /\ requestAt[c] # Never) =>
                clock - requestAt[c] > INACTIVITY_THRESHOLD]_vars

(***************************************************************************)
(* One call of fetchContent on a page that serves one text, under the      *)
(* claim's assumption that every driver operation returns or throws: the   *)
(* event loop then runs the continuation of each extractor that awaits     *)
(* one, so no extractor with a step to take waits forever.  Nothing is     *)
(* assumed of the HTTP attempt or of the timer.                            *)
(***************************************************************************)
FairNext ==
    \E c \in SoloCalls :
        \/ \E u \in ConcurrentUrls, rawFlag \in BOOLEAN : fetchContent(c, u, rawFlag)
        \/ \E response \in Responses(processedUrl[c]) :
              HttpReturns(c, response) /\ ConcurrentInputs(c)'
        \/ HttpThrows(c)
        \/ BrowserBuild(c) \/ BrowserGet(c) \/ BrowserWait(c)
        \/ BrowserSource(c) /\ ConcurrentInputs(c)'
        \/ BrowserQuit(c)
        \/ OcrBuild(c) \/ OcrGet(c) \/ OcrWait(c) \/ OcrScreenshot(c)
        \/ OcrRecognize(c) /\ ConcurrentInputs(c)'
        \/ OcrQuit(c)
        \/ Timeout(c) \/ LateTimer(c)

FairSpec ==
    /\ Init
    /\ [][FairNext]_vars
    /\ \A c \in SoloCalls : \A e \in BrowserUsers : WF_vars(ExtractorStep(c, e))

\* C29: under that assumption every browser an extractor has launched is
\* eventually quit, also when fetchContent has already failed with the
\* timeout error.
C29_BrowsersQuit ==
    \A c \in SoloCalls : \A e \in BrowserUsers :
        (driver[c][e] = "running") ~> (driver[c][e] = "quit")

\* The call has failed with the timeout error and both extractors, which had
\* launched their browsers, have run to their end and quit them.
C29_Witness ==
    \E c \in AllCalls :
        /\ thrown[c] = TimeoutError
        /\ \A e \in BrowserUsers :
              /\ Stage(c, e) = "settled"
              /\ driver[c][e] = "quit"

ParallelMethods == {"browser", "document", "ocr"}

\* C31: a call that returns after the parallel phase returns the output of a
\* browser, document or ocr result; the HTTP result is not among the results
\* the winner is selected from, whatever its score.
C31_HttpExcluded ==
    \A c \in AllCalls :
        /\ \A i \in 1..Len(results[c]) : results[c][i].method \in ParallelMethods
        /\ (Done(c) /\ ~FastPath(c) /\ returned[c] # Undefined) =>
              /\ bestResult[c] # Null
              /\ bestResult[c].method \in ParallelMethods
              /\ returned[c] = Output(bestResult[c], raw[c])

\* The call returned a parallel-phase result although its HTTP attempt had
\* produced a result with a higher score.
C31_Witness ==
    \E c \in AllCalls :
        /\ Done(c) /\ ~FastPath(c) /\ returned[c] # Undefined
        /\ httpResult[c] # Null
        /\ httpResult[c].score > bestResult[c].score

\* C32: a result of the GitHub API branch is tagged http-api and has the
\* fixed score 80 for a listing (its raw form the JSON of the array) and 90
\* for a file (its content the decoded text), whatever the scorer would give
\* its text; the call that got it has returned it on the fast path, and has
\* launched no extractor and armed no timer.
C32_ApiFastPath ==
    \A c \in AllCalls :
        (httpResult[c] # Null /\ httpResult[c].method = "http-api") =>
            /\ IsApiUrl(processedUrl[c])
            /\ IF httpResult[c].metadata["rawHtml"].form = "json"
               THEN httpResult[c].score = Points(80)
               ELSE /\ httpResult[c].score = Points(90)
                    /\ httpResult[c].content.form = "text"
                    /\ httpResult[c].metadata["rawHtml"] = httpResult[c].content
            /\ FastPath(c)
            /\ returned[c] = Output(httpResult[c], raw[c])
            /\ \A e \in Extractors : ~Launched(c, e)

\* A file payload whose text the scorer would put below the fast-path
\* threshold has been returned on the fast path with score 90.
C32_Witness ==
    \E c \in AllCalls :
        /\ httpResult[c] # Null /\ httpResult[c].method = "http-api"
        /\ httpResult[c].score = Points(90)
        /\ calculateScore(httpResult[c].content, "http-api") <= Points(50)
        /\ FastPath(c) /\ returned[c] = httpResult[c].content

\* C33: whatever fetchContent calls with the URL (extractWithHttp,
\* extractWithBrowser, isDocumentUrl, extractDocument, extractWithOCR) is
\* called with the normalized URL, and nothing is called before the
\* normalization.
C33_NormalizedFirst ==
    \A c \in AllCalls :
        /\ processedUrl[c] = processGitHubUrl(url[c])
        /\ \A r \in UrlReaders :
              /\ urlSeen[c][r] \in {NoUrl, processGitHubUrl(url[c])}
              /\ (r \in Extractors /\ Launched(c, r)) => urlSeen[c][r] = processedUrl[c]
        /\ pc[c] # "idle" => urlSeen[c]["http"] = processedUrl[c]
        /\ Launched(c, "document") <=>
              (timer[c] # "unset" /\ isDocumentUrl(processGitHubUrl(url[c])))

\* A call on a GitHub page URL, which normalization rewrites, has started
\* its Browser and OCR extractors on the rewritten URL.
C33_Witness ==
    \E c \in AllCalls :
        /\ processedUrl[c] # url[c]
        /\ Launched(c, "browser") /\ urlSeen[c]["browser"] = processGitHubUrl(url[c])
        /\ Launched(c, "ocr") /\ urlSeen[c]["ocr"] = processGitHubUrl(url[c])
        /\ urlSeen[c]["isDocumentUrl"] = processGitHubUrl(url[c])

HttpSettled(c) == httpResult[c] # Null \/ httpThrew[c]

\* C34: the timer of the race exists only once the HTTP attempt has settled
\* without a fast-path return and the Browser extractor has been started; it
\* is armed in the step that starts the extractors; a call that returned on
\* the fast path never had a timer and has no error, and the timeout error is
\* thrown only by a fired timer in the parallel phase.
C34_TimerInParallelPhase ==
    /\ [](\A c \in AllCalls :
            /\ timer[c] # "unset" =>
                  /\ pc[c] \in {"race", "done"}
                  /\ HttpSettled(c)
                  /\ ~FastPathAccepts(httpResult[c])
                  /\ Launched(c, "browser")
            /\ pc[c] \in {"idle", "http"} => thrown[c] = NoError
            /\ FastPath(c) => thrown[c] = NoError /\ returned[c] # Undefined
            /\ thrown[c] = TimeoutError => timer[c] = "fired" /\ HttpSettled(c))
    /\ [][\A c \in AllCalls :
            (timer[c] = "unset" /\ timer'[c] # "unset") =>
                /\ pc[c] = "http" /\ pc'[c] = "race"
                /\ timer'[c] = "armed"
                /\ HttpSettled(c)'
                /\ ~Launched(c, "browser") /\ Launched(c, "browser")']_vars

\* The HTTP attempt returned a result too poor for the fast path, the
\* parallel phase began and its timer fired: the call failed with the
\* timeout error.
C34_Witness ==
    \E c \in AllCalls :
        /\ httpResult[c] # Null
        /\ timer[c] = "fired"
        /\ thrown[c] = TimeoutError

\* What a call has settled with, and the collection it selected from.
Settlement(c) ==
    << pc[c], returned[c], thrown[c], settleCount[c], extractionResults[c], results[c],
       bestResult[c] >>

\* C35: once a call has settled, nothing changes what it settled with: not an
\* extractor of it that completes or fails later, not its timer firing later;
\* it is settled once, and such a late step changes nothing of another call.
C35_SettledIsFinal ==
    /\ [](\A c \in AllCalls : settleCount[c] = (IF Done(c) THEN 1 ELSE 0))
    /\ [][\A c \in AllCalls :
            Done(c) =>
                /\ Settlement(c)' = Settlement(c)
                /\ (task'[c] # task[c] \/ timer'[c] # timer[c]) =>
                      \A d \in AllCalls \ {c} : CallState(d)' = CallState(d)]_vars

\* A call failed with the timeout error and, since every extractor has
\* settled after that, at least one completed later, the Browser extractor
\* with a result that no collection holds; the other call has returned.
C35_Witness ==
    \E c \in AllCalls :
        /\ thrown[c] = TimeoutError /\ returned[c] = Undefined
        /\ \A e \in BrowserUsers : Stage(c, e) = "settled"
        /\ IsResult(task[c]["browser"].pending)
        /\ results[c] = << >>
        /\ \E d \in AllCalls \ {c} : Done(d) /\ returned[d] # Undefined

\* This step is a turn of the loop of a monitor pass.
MonitorTurn ==
    /\ lastRun' = "monitor"
    /\ << lastRun, monitorAt, stateFile, exitStatus, dockerState >>'
          # << lastRun, monitorAt, stateFile, exitStatus, dockerState >>

\* C36 as claimed: every turn of a monitor pass goes on to the next container
\* of the list, and for a container that exists it has saved the state file
\* with the byte count just read, whatever was detected.
C36_Claim ==
    [][MonitorTurn =>
          LET c == Monitored[monitorAt + 1]
          IN  /\ monitorAt' = (monitorAt + 1) % Len(Monitored)
              /\ dockerState[c] # "absent" =>
                    /\ stateFile'[c] # NoFile
                    /\ stateFile'[c].bytes = get_network_bytes(NetIOSamples[netIO[c]])]_vars

\* C37 as claimed: when the duckduckgo server has admitted its 15000 requests
\* and more than a month has passed since the last of them, the next request,
\* which no earlier request of its second precedes, is admitted.
C37_Claim ==
    [][(/\ server = "duckduckgo"
        /\ rateCalls' # rateCalls
        /\ admittedTotal >= perMonth(server)
        /\ Exceeds(Elapsed(now, admitted[Len(admitted)]), monthInMs)
        /\ Exceeds(Elapsed(now, requestCount.lastReset), SecondInMs))
            => rateError' = NoRateError]_vars

(***************************************************************************)
(* The searxng_web_search tool (src/searxng/src/index.ts). A message is    *)
(* the sequence of its words and punctuation marks, capitals kept, so that *)
(* String.includes is the search for a run of them.                        *)
(***************************************************************************)
includes(message, fragment) ==
    \E i \in 1..(Len(message) - Len(fragment) + 1) :
        SubSeq(message, i, i + Len(fragment) - 1) = fragment

\* What the fetch of line 277 can do: respond with a status, or reject.
Responded(status) == [kind |-> "response", status |-> status, message |-> << >>]

Rejected(message) == [kind |-> "rejected", status |-> 0, message |-> message]

\* AbortSignal.timeout aborting the fetch, and a connection that fails.
FetchTimedOut == << "The", "operation", "was", "aborted", "due", "to", "timeout" >>

FetchFailed == << "fetch", "failed" >>

Statuses == {200, 403, 404, 429, 500, 503}

FetchOutcomes ==
    {Responded(status) : status \in Statuses}
        \cup {Rejected(FetchTimedOut), Rejected(FetchFailed)}

\* Lines 156-161: the messages checkRateLimit throws, on the count rc.
RateLimitMessage(error, rc) ==
    IF error = PerSecondExceeded
    THEN << "Rate", "limit", "exceeded", ":", ToString(rc.second), "/",
            ToString(perSecond("searxng")), "per", "second" >>
    ELSE << "Rate", "limit", "exceeded", ":", ToString(rc.month), "/",
            ToString(perMonth("searxng")), "per", "month" >>

\* Lines 291-299: the messages of the status mapping.
InstanceRateLimited ==
    << "SearXNG", "instance", "rate", "limit", "exceeded", ".",
       "Please", "try", "again", "later", "." >>

ServiceUnavailable ==
    << "SearXNG", "service", "is", "temporarily", "unavailable", "." >>

AccessDenied ==
    << "SearXNG", "access", "denied", ".",
       "Please", "check", "instance", "configuration", "." >>

ApiError(status) == << "SearXNG", "API", "error", ":", ToString(status) >>

\* Lines 325-336: the messages of the catch block.
SearchRateLimited ==
    << "Search", "rate", "limit", "exceeded", ".",
       "Please", "try", "again", "later", "." >>

ServiceTemporarilyUnavailable ==
    << "SearXNG", "service", "temporarily", "unavailable", ".",
       "Please", "try", "again", "." >>

ServiceError ==
    << "SearXNG", "service", "error", ".",
       "Please", "check", "the", "service", "configuration", "." >>

InternalError ==
    << "Search", "failed", "due", "to", "an", "internal", "error", "." >>

SearchResults == << "#", "SearXNG", "Search", "Results" >>

Thrown(message) == [threw |-> TRUE, value |-> message]

Returned(value) == [threw |-> FALSE, value |-> value]

\* Lines 287-300: the status mapping of a response that is not ok.
statusError(status) ==
    IF status = 429 THEN InstanceRateLimited
    ELSE IF status >= 500 THEN ServiceUnavailable
    ELSE IF status = 403 THEN AccessDenied
    ELSE ApiError(status)

\* Lines 256-322: the try block, after checkRateLimit threw error (or did
\* not) on the count rc and, if it did not, the fetch did fetched.
searchAttempt(error, rc, fetched) ==
    IF error # NoRateError THEN Thrown(RateLimitMessage(error, rc))
    ELSE IF fetched.kind = "rejected" THEN Thrown(fetched.message)
    ELSE IF ~(fetched.status >= 200 /\ fetched.status <= 299)
    THEN Thrown(statusError(fetched.status))
    ELSE Returned(SearchResults)

\* The test of line 325 on the message of the error caught.
isRateLimitError(message) == includes(message, << "Rate", "limit" >>)

\* The same test, blind to the case of the letters.
isRateLimitErrorAnyCase(message) ==
    includes(message, << "Rate", "limit" >>) \/ includes(message, << "rate", "limit" >>)

\* Lines 323-337: the catch block.
searchCatch(message) ==
    IF isRateLimitError(message) THEN SearchRateLimited
    ELSE IF includes(message, << "timeout" >>) \/ includes(message, << "fetch" >>)
    THEN ServiceTemporarilyUnavailable
    ELSE IF includes(message, << "SearXNG", "API", "error" >>) THEN ServiceError
    ELSE InternalError

\* Lines 251-338.
performWebSearch(error, rc, fetched) ==
    LET attempt == searchAttempt(error, rc, fetched)
    IN  IF attempt.threw THEN Thrown(searchCatch(attempt.value)) ELSE attempt

\* Lines 397-415: the handler's case "searxng_web_search", on valid
\* arguments.
searxng_web_search(fetched) ==
    /\ server = "searxng"
    /\ checkRateLimitCall
    /\ LET out == performWebSearch(rateError', requestCount', fetched)
       IN  /\ searchResponse' = [isError |-> out.threw, text |-> out.value]
           /\ searchFetch' = IF rateError' = NoRateError THEN fetched ELSE NotFetched

SearchInit == RateInit /\ server = "searxng"

MaxSearchMs == 1002

\* Time passes between two searches, within the first seconds of the server.
SearchElapse == Elapse /\ ~Exceeds(now', Time(0, MaxSearchMs))

SearchNext ==
    (\E fetched \in FetchOutcomes : searxng_web_search(fetched)) \/ SearchElapse

SearchSpec == SearchInit /\ [][SearchNext]_vars

\* C38 as claimed: a search error reaches the caller with the category of
\* its failure site: a 429 response as 'SearXNG instance rate limit
\* exceeded. Please try again later.', a 5xx response as 'SearXNG service is
\* temporarily unavailable.', a 403 response as 'SearXNG access denied.
\* Please check instance configuration.', a rejection by checkRateLimit as
\* a rate-limit error, and none of them as 'Search failed due to an
\* internal error.'
C38_Claim ==
    /\ rateError # NoRateError =>
          /\ searchResponse.isError
          /\ isRateLimitErrorAnyCase(searchResponse.text)
    /\ (searchFetch.kind = "response" /\ searchFetch.status = 429) =>
          searchResponse = [isError |-> TRUE, text |-> InstanceRateLimited]
    /\ (searchFetch.kind = "response" /\ searchFetch.status >= 500) =>
          searchResponse = [isError |-> TRUE, text |-> ServiceUnavailable]
    /\ (searchFetch.kind = "response" /\ searchFetch.status = 403) =>
          searchResponse = [isError |-> TRUE, text |-> AccessDenied]

\* C39: when driver.quit() throws in the finally block of the Browser or the
\* OCR extractor after the try block has returned a result, the result is
\* lost: the extractor's entry of extractionPromises is settled with null,
\* no result of that extractor is collected or selected, the error of quit()
\* does not reject the race, and a call that is through has either returned
\* the result of another extractor or failed with 'All extraction methods
\* failed', or with the timeout of the race.
C39_TeardownFailureLosesResult ==
    \A c \in AllCalls : \A e \in BrowserUsers :
        lostResult[c][e] =>
            /\ task[c][e] = Task("settled", Null)
            /\ \A i \in 1..Len(extractionResults[c]) : extractionResults[c][i].method # e
            /\ \A i \in 1..Len(results[c]) : results[c][i].method # e
            /\ bestResult[c].method # e
            /\ thrown[c] \in {NoError, AllFailedError, TimeoutError}
            /\ Done(c) =>
                  \/ /\ returned[c] # Undefined
                     /\ bestResult[c].method \in ParallelMethods \ {e}
                     /\ returned[c] = Output(bestResult[c], raw[c])
                  \/ /\ returned[c] = Undefined
                     /\ thrown[c] \in {AllFailedError, TimeoutError}

\* The Browser extractor lost its result to a throwing quit() and nothing
\* else was collected: the call failed with 'All extraction methods failed'.
C39_Witness ==
    \E c \in AllCalls :
        /\ lostResult[c]["browser"]
        /\ Done(c)
        /\ extractionResults[c] # << >>
        /\ thrown[c] = AllFailedError

====
